---- MODULE Spec2Model ----
(***************************************************************************)
(* Orchestration core of llm_source_to_kg.                                 *)
(*                                                                         *)
(*  Part I  : the analysis workflow (src/src/llm_source_to_kg/graph):      *)
(*            run_full_workflow invoking the analysis graph                *)
(*            analyze_cohort -> validate_analysis -> route_after_validation*)
(*            -> mapping_to_omop -> load_to_kg once per cohort item.       *)
(*  Part II : the multi-agent system (src/old/agents.py): manager, drug    *)
(*            and diagnosis agents routed by next_agent, followed by the   *)
(*            aggregation in extract_kg_and_cohort_analysis.               *)
(*  Part III: the response normalizers (src/processor.py, old/agents.py,  *)
(*            analyze_cohort) over responses written as token sequences.   *)
(*  Part IV : generate_knowledge_graph (src/src/storage/graph_storage.py) *)
(*            on bounded aggregated results.                               *)
(*  Part V  : the cohort graph's validation and retry loop                 *)
(*            (src/src/llm_source_to_kg/graph/cohort_graph).               *)
(*  Part VI : the linear document workflow and process_source              *)
(*            (src/langgraph_v1/src/graph/workflow.py).                    *)
(*  Part VII: the logger registry (llm_source_to_kg/utils/logger.py).      *)
(***************************************************************************)
EXTENDS Integers, Sequences, FiniteSets, TLC

(***************************************************************************)
(* Bounds of the model                                                     *)
(***************************************************************************)
\* longest cohort_list handed to run_full_workflow
MaxCohorts == 2

\* the attempts counter stops counting here
MaxAttempts == 5

(***************************************************************************)
(* Program constants                                                       *)
(***************************************************************************)
MAX_RETRIES == 3

END == "__end__"

\* value of a dictionary key that is not present
Absent == "<absent>"

(***************************************************************************)
(* Part I : state                                                          *)
(***************************************************************************)
VARIABLES
    cohort_list,        \* cohort_state["cohort_results"]
    item,               \* position of the for loop of run_full_workflow
    analysis_results,   \* the list run_full_workflow returns
    wf_status,          \* "running" | "returned" | "raised"
    node,               \* node of the analysis graph that runs next
    cohort,             \* state["cohort"]   : cohort_id -> content
    analysis,           \* state["analysis"].cohort_analyses
    is_valid,           \* state["is_valid"]
    retries,            \* state["retries"]
    validation_results, \* state["validation_results"]
    mapping_result,     \* state["mapping_result"]
    kg_load_result,     \* state["kg_load_result"]
    attempts            \* history: analyze_cohort passes of this invocation

avars == <<cohort_list, item, analysis_results, wf_status, node, cohort,
           analysis, is_valid, retries, validation_results, mapping_result,
           kg_load_result, attempts>>

(***************************************************************************)
(* Part II : state (AgentState of src/old/agents.py and what               *)
(* extract_kg_and_cohort_analysis builds from it)                          *)
(***************************************************************************)
VARIABLES
    agent_node,         \* node of the agent graph that runs next, or
                        \* "raised" | "returned" once graph.invoke is over
    next_agent,         \* state["next_agent"]
    current_cohort,     \* state["current_cohort"]
    pending_agents,     \* state["pending_agents"]
    pending_cohorts,    \* state["pending_cohorts"]
    results,            \* state["results"]
    messages,           \* state["messages"]
    chat_history,       \* state["chat_history"]
    final_result,       \* what extract_kg_and_cohort_analysis returns
    aggregations,       \* passes of the aggregation over the same results
    llm_log,            \* history: outcome kind of every LLM call so far
    proposed,           \* history: proposed_cohort_analyses of the manager
    dispatched          \* history: (agent, cohort) of every specialist run

gvars == <<agent_node, next_agent, current_cohort, pending_agents,
           pending_cohorts, results, messages, chat_history, final_result,
           aggregations, llm_log, proposed, dispatched>>

(***************************************************************************)
(* Part III : the response normalizers                                     *)
(***************************************************************************)
VARIABLES
    raw_text,           \* the LLM response handed to the normalizer
    parser,             \* which normalizer is running on it
    parsed,             \* what the normalizer returned (or that it raised)
    handling            \* what the caller does with the returned value

nvars == <<raw_text, parser, parsed, handling>>

(***************************************************************************)
(* Part IV : the knowledge graph built from the aggregated results         *)
(* (src/src/storage/graph_storage.py)                                      *)
(***************************************************************************)
VARIABLES
    aggregated_results, \* the argument of generate_knowledge_graph
    knowledge_graph,    \* what it returned: nodes and edges
    kg_status           \* "off" | "input" | "generated"

kvars == <<aggregated_results, knowledge_graph, kg_status>>

\* no knowledge graph is being generated
StorageIdle ==
    /\ aggregated_results = <<>>
    /\ knowledge_graph = <<>>
    /\ kg_status = "off"

(***************************************************************************)
(* Part V : the cohort graph                                               *)
(* (src/src/llm_source_to_kg/graph/cohort_graph)                           *)
(***************************************************************************)
VARIABLES
    cg_node,               \* node of the cohort graph that runs next
    cg_state_kind,         \* what the nodes are handed as state: "dict" |
                           \* "object"
    cohort_result,         \* state["cohort_result"]
    cohorts,               \* state.cohorts
    cg_validation_results, \* state.validation_results
    can_retry,             \* state.can_retry
    retry_passes           \* history: passes of retry_extract_cohort

cvars == <<cg_node, cg_state_kind, cohort_result, cohorts,
           cg_validation_results, can_retry, retry_passes>>

\* the cohort graph is not running
CohortGraphIdle ==
    /\ cg_node = "off"
    /\ cg_state_kind = "off"
    /\ cohort_result = <<>>
    /\ cohorts = <<>>
    /\ cg_validation_results = <<>>
    /\ can_retry = FALSE
    /\ retry_passes = 0

(***************************************************************************)
(* Part VI : the linear document workflow                                  *)
(* (src/langgraph_v1/src/graph/workflow.py)                                *)
(***************************************************************************)
VARIABLES
    doc_node,              \* node of the workflow that runs next
    input_source,          \* state.input_source: what the path leads to
    document_chunks,       \* state.document_chunks
    analysis_type,         \* state.analysis_type
    diagnostic_results,    \* state.diagnostic_results
    drug_results,          \* state.drug_results
    doc_aggregated_results,\* state.aggregated_results
    total_results,         \* state.total_results
    error_message,         \* state.error_message
    current_step,          \* state.current_step
    process_source_result, \* what process_source returned
    recorded               \* history: the nodes that recorded an error

dvars == <<doc_node, input_source, document_chunks, analysis_type,
           diagnostic_results, drug_results, doc_aggregated_results,
           total_results, error_message, current_step,
           process_source_result, recorded>>

\* no document is being processed
DocumentWorkflowIdle ==
    /\ doc_node = "off"
    /\ input_source = "off"
    /\ document_chunks = "off"
    /\ analysis_type = "off"
    /\ diagnostic_results = "off"
    /\ drug_results = "off"
    /\ doc_aggregated_results = "off"
    /\ total_results = "off"
    /\ error_message = "off"
    /\ current_step = "off"
    /\ process_source_result = <<>>
    /\ recorded = <<>>

(***************************************************************************)
(* Part VII : the logger registry                                          *)
(* (src/src/llm_source_to_kg/utils/logger.py)                              *)
(***************************************************************************)
VARIABLES
    configured_loggers, \* Logger._configured_loggers
    logger_cache,       \* the names that are keys of _logger_cache
    handlers,           \* logging.getLogger(name).handlers, per name
    returned_logger,    \* the name of the logger get_logger returned last
    last_call           \* "off" | "none" | "get_logger" | "close" |
                        \* "remove_logger"

lvars == <<configured_loggers, logger_cache, handlers, returned_logger, last_call>>

\* the logger module is not in use
LoggerIdle ==
    /\ configured_loggers = {}
    /\ logger_cache = {}
    /\ handlers = <<>>
    /\ returned_logger = "off"
    /\ last_call = "off"

vars == <<avars, gvars, nvars, kvars, cvars, dvars, lvars>>

\* the variables each part leaves alone
outside_analysis == <<gvars, nvars, kvars, cvars, dvars, lvars>>
outside_agents == <<avars, nvars, kvars, cvars, dvars, lvars>>
outside_normalizer == <<avars, gvars, kvars, cvars, dvars, lvars>>
outside_storage == <<avars, gvars, nvars, cvars, dvars, lvars>>
outside_cohort_graph == <<avars, gvars, nvars, kvars, dvars, lvars>>
outside_document_workflow == <<avars, gvars, nvars, kvars, cvars, lvars>>
outside_logger == <<avars, gvars, nvars, kvars, cvars, dvars>>

\* no normalizer is running
NormalizerIdle ==
    /\ raw_text = <<>>
    /\ parser = "off"
    /\ parsed = <<>>
    /\ handling = "off"

\* ids and contents of the cohorts inside one cohort item
CohortIds == {"c1", "c2"}

\* the text of each cohort
CohortContent == [c1 |-> "diabetes", c2 |-> "plain"]

\* every dictionary id -> content over a subset of the ids
CohortDicts ==
    {[c \in ids |-> CohortContent[c]] : ids \in SUBSET CohortIds}

\* the lists over S of length at most n
RECURSIVE SeqsUpTo(_, _)
SeqsUpTo(S, n) ==
    IF n = 0 THEN {<<>>}
    ELSE LET shorter == SeqsUpTo(S, n - 1)
         IN  shorter \cup {Append(s, x) : s \in {t \in shorter : Len(t) = n - 1}, x \in S}

EmptyMap == [x \in {} |-> x]

(***************************************************************************)
(* analyze_cohort                                                          *)
(***************************************************************************)
expected_keys == {"drug", "diagnostic", "medicalTest", "surgery", "symptoms", "procedures"}

\* keyword fallback used when the response is not JSON: the entity lists
\* that come back non-empty
generate_dummy_entities(cohort_content) ==
    IF cohort_content = "diabetes" THEN {"diagnostic", "drug", "medicalTest"}
    ELSE {}

\* entity lists (by key, the ones left non-empty by validate_extracted_entities)
\* that a parsed response can carry
ParsedEntities == {{}, {"symptoms"}, {"diagnostic", "procedures"}}

\* what one LLM call of analyze_cohort can end in
LLMOutcomes == {[kind |-> "service_error", entities |-> {}],
                [kind |-> "not_json", entities |-> {}]}
               \cup {[kind |-> "json", entities |-> e] : e \in ParsedEntities}

\* the new entry merged with the entities of the attempts before it
analysis_entry_merging(outcome, cohort_content) ==
    [status |-> IF outcome.kind = "json" THEN "success"
                ELSE IF outcome.kind = "not_json" THEN "error_fallback"
                ELSE "error",
     entities |-> (IF outcome.kind = "json" THEN outcome.entities \cap expected_keys
                   ELSE IF outcome.kind = "not_json"
                   THEN generate_dummy_entities(cohort_content)
                   ELSE {})
                  \cup UNION {analysis[c].entities : c \in DOMAIN analysis}]

\* the entry analyze_cohort stores for one cohort id
analysis_entry(outcome, cohort_content) ==
    CASE outcome.kind = "json" ->
            [status |-> "success", entities |-> outcome.entities \cap expected_keys]
      [] outcome.kind = "not_json" ->
            [status |-> "error_fallback",
             entities |-> generate_dummy_entities(cohort_content)]
      [] OTHER ->
            [status |-> "error", entities |-> {}]

(***************************************************************************)
(* validate_analysis                                                       *)
(***************************************************************************)
has_medical_entities(entities) ==
    entities \cap {"drug", "diagnostic", "medicalTest", "surgery"} # {}

cohort_is_valid(analysis_result) ==
    /\ analysis_result.status = "success"
    /\ has_medical_entities(analysis_result.entities)

overall_valid(an) ==
    /\ \A c \in DOMAIN an : cohort_is_valid(an[c])
    /\ DOMAIN an # {}

\* the increment of the retry counter left out
retries_after_validation_no_count(valid, r) ==
    r

\* retry counter after one validation pass
retries_after_validation(valid, r) ==
    IF ~valid THEN r + 1 ELSE r

(***************************************************************************)
(* route_after_validation and the edges of build_analysis_graph            *)
(***************************************************************************)
\* the retry test written with <= instead of <
route_after_validation_off_by_one(valid, r) ==
    IF ~valid /\ r <= MAX_RETRIES THEN "retry_analysis"
    ELSE IF valid THEN "mapping_to_omop"
    ELSE END

route_after_validation(valid, r) ==
    IF ~valid /\ r < MAX_RETRIES THEN "retry_analysis"
    ELSE IF valid THEN "mapping_to_omop"
    ELSE END

\* a path map that sends the retry to the mapping node
validation_edges_retry_to_mapping ==
    [retry_analysis |-> "mapping_to_omop", mapping_to_omop |-> "mapping_to_omop"]

\* the path map given to add_conditional_edges for validate_analysis
validation_edges ==
    [retry_analysis |-> "analyze_cohort", mapping_to_omop |-> "mapping_to_omop"]

(***************************************************************************)
(* Part I : actions                                                        *)
(***************************************************************************)
\* the multi-agent system is not running
AgentsIdle ==
    /\ agent_node = "off"
    /\ next_agent = "manager"
    /\ current_cohort = Absent
    /\ pending_agents = <<>>
    /\ pending_cohorts = <<>>
    /\ results = EmptyMap
    /\ messages = <<>>
    /\ chat_history = <<>>
    /\ final_result = EmptyMap
    /\ aggregations = 0
    /\ llm_log = <<>>
    /\ proposed = <<>>
    /\ dispatched = <<>>

InitAnalysis ==
    /\ LoggerIdle
    /\ DocumentWorkflowIdle
    /\ CohortGraphIdle
    /\ StorageIdle
    /\ cohort_list \in SeqsUpTo(CohortDicts, MaxCohorts) \ {<<>>}
    /\ item = 1
    /\ analysis_results = <<>>
    /\ wf_status = "running"
    /\ node = "idle"
    /\ cohort = EmptyMap
    /\ analysis = EmptyMap
    /\ is_valid = FALSE
    /\ retries = 0
    /\ validation_results = EmptyMap
    /\ mapping_result = EmptyMap
    /\ kg_load_result = EmptyMap
    /\ attempts = 0
    /\ AgentsIdle
    /\ NormalizerIdle

\* run_full_workflow: analysis_graph.invoke(analysis_input) for the next item
Invoke ==
    /\ wf_status = "running"
    /\ node = "idle"
    /\ item <= Len(cohort_list)
    /\ node' = "analyze_cohort"
    /\ cohort' = cohort_list[item]
    /\ analysis' = EmptyMap
    /\ is_valid' = FALSE
    /\ retries' = 0
    /\ validation_results' = EmptyMap
    /\ mapping_result' = EmptyMap
    /\ kg_load_result' = EmptyMap
    /\ attempts' = 0
    /\ UNCHANGED <<cohort_list, item, analysis_results, wf_status>>
    /\ UNCHANGED outside_analysis

AnalyzeCohort ==
    /\ wf_status = "running"
    /\ node = "analyze_cohort"
    /\ \E outcome \in [DOMAIN cohort -> LLMOutcomes] :
          analysis' = [c \in DOMAIN cohort |-> analysis_entry(outcome[c], cohort[c])]
    /\ retries' = retries
    /\ attempts' = IF attempts < MaxAttempts THEN attempts + 1 ELSE attempts
    /\ node' = "validate_analysis"
    /\ UNCHANGED <<cohort_list, item, analysis_results, wf_status, cohort,
                   is_valid, validation_results, mapping_result, kg_load_result>>
    /\ UNCHANGED outside_analysis

ValidateAnalysis ==
    /\ wf_status = "running"
    /\ node = "validate_analysis"
    /\ is_valid' = overall_valid(analysis)
    /\ validation_results' = [c \in DOMAIN analysis |-> cohort_is_valid(analysis[c])]
    /\ retries' = retries_after_validation(overall_valid(analysis), retries)
    /\ node' = "route_after_validation"
    /\ UNCHANGED <<cohort_list, item, analysis_results, wf_status, cohort,
                   analysis, mapping_result, kg_load_result>>
    /\ UNCHANGED attempts
    /\ UNCHANGED outside_analysis

\* the conditional edge after validate_analysis: the value the router returns
\* is looked up in the path map; a value the map does not declare is a KeyError
RouteAfterValidation ==
    /\ wf_status = "running"
    /\ node = "route_after_validation"
    /\ LET target == route_after_validation(is_valid, retries)
       IN  node' = IF target \in DOMAIN validation_edges
                   THEN validation_edges[target]
                   ELSE "raised"
    /\ UNCHANGED <<cohort_list, item, analysis_results, wf_status, cohort,
                   analysis, is_valid, retries, validation_results,
                   mapping_result, kg_load_result>>
    /\ UNCHANGED attempts
    /\ UNCHANGED outside_analysis

MappingToOmop ==
    /\ wf_status = "running"
    /\ node = "mapping_to_omop"
    /\ mapping_result' =
          [c \in DOMAIN analysis |->
              IF analysis[c].status # "success"
              THEN [status |-> "skipped", mappings |-> {}]
              ELSE [status |-> "success", mappings |-> analysis[c].entities]]
    /\ node' = "load_to_kg"
    /\ UNCHANGED <<cohort_list, item, analysis_results, wf_status, cohort,
                   analysis, is_valid, retries, validation_results, kg_load_result>>
    /\ UNCHANGED attempts
    /\ UNCHANGED outside_analysis

LoadToKg ==
    /\ wf_status = "running"
    /\ node = "load_to_kg"
    /\ kg_load_result' =
          [c \in DOMAIN mapping_result |->
              IF mapping_result[c].status # "success" THEN "skipped" ELSE "success"]
    /\ node' = END
    /\ UNCHANGED <<cohort_list, item, analysis_results, wf_status, cohort,
                   analysis, is_valid, retries, validation_results, mapping_result>>
    /\ UNCHANGED attempts
    /\ UNCHANGED outside_analysis

\* the invocation reached END: run_full_workflow appends the final state and
\* goes on with the next item
InvokeReturns ==
    /\ wf_status = "running"
    /\ node = END
    /\ analysis_results' =
          Append(analysis_results,
                 [is_valid |-> is_valid, retries |-> retries,
                  loaded |-> DOMAIN kg_load_result])
    /\ item' = item + 1
    /\ node' = "idle"
    /\ UNCHANGED <<cohort_list, wf_status, cohort, analysis, is_valid, retries,
                   validation_results, mapping_result, kg_load_result>>
    /\ UNCHANGED attempts
    /\ UNCHANGED outside_analysis

\* the exception of an invocation is not caught by run_full_workflow
InvokeRaises ==
    /\ wf_status = "running"
    /\ node = "raised"
    /\ wf_status' = "raised"
    /\ UNCHANGED <<cohort_list, item, analysis_results, node, cohort, analysis,
                   is_valid, retries, validation_results, mapping_result,
                   kg_load_result>>
    /\ UNCHANGED attempts
    /\ UNCHANGED outside_analysis

\* every item was processed: run_full_workflow returns
WorkflowReturns ==
    /\ wf_status = "running"
    /\ node = "idle"
    /\ item > Len(cohort_list)
    /\ wf_status' = "returned"
    /\ UNCHANGED <<cohort_list, item, analysis_results, node, cohort, analysis,
                   is_valid, retries, validation_results, mapping_result,
                   kg_load_result>>
    /\ UNCHANGED attempts
    /\ UNCHANGED outside_analysis

NextAnalysis ==
    \/ Invoke
    \/ AnalyzeCohort
    \/ ValidateAnalysis
    \/ RouteAfterValidation
    \/ MappingToOmop
    \/ LoadToKg
    \/ InvokeReturns
    \/ InvokeRaises
    \/ WorkflowReturns

SpecAnalysis == InitAnalysis /\ [][NextAnalysis]_vars

\* the graph runtime always runs the next node of a started invocation
FairSpecAnalysis == SpecAnalysis /\ WF_vars(NextAnalysis)


(***************************************************************************)
(* Part II : dictionaries and lists                                        *)
(***************************************************************************)
\* Python's None
None == "<None>"

\* d[k] = v
Put(d, k, v) == [x \in DOMAIN d \cup {k} |-> IF x = k THEN v ELSE d[x]]

\* d.get(k, default)
Get(d, k, default) == IF k \in DOMAIN d THEN d[k] ELSE default

\* a dict that keeps insertion order, as a list of (key, value): od[k] = v
OrderedPut(od, k, v) ==
    IF \E i \in 1..Len(od) : od[i].key = k
    THEN [i \in 1..Len(od) |-> IF od[i].key = k THEN [key |-> k, value |-> v] ELSE od[i]]
    ELSE Append(od, [key |-> k, value |-> v])

(***************************************************************************)
(* Part II : what the LLM can answer                                       *)
(***************************************************************************)
\* longest proposed_cohort_analyses list of a manager answer
MaxPlan == 3

\* passes of the aggregation made over the results of one run
MaxAggregations == 2

\* entries of proposed_cohort_analyses: three agent names (one of them has
\* no node in the graph) and an entry without selected_agent
PlanEntries ==
    {[selected_agent |-> "drug_agent", name |-> "c1"],
     [selected_agent |-> "drug_agent", name |-> "c2"],
     [selected_agent |-> "diagnosis_agent", name |-> "c1"],
     [selected_agent |-> "surgery_agent", name |-> "c2"],
     [name |-> "c1"]}

\* entities carry a concept_name and, some of them, an id
Metformin == [concept_name |-> "Metformin"]
MetforminWithId == [concept_name |-> "Metformin", id |-> "e1"]
Aspirin == [concept_name |-> "Aspirin"]

\* the knowledge-graph part of a manager answer: no entities/relations keys,
\* or one entity and one relation (the manager writes source, target, name)
ManagerGraphs ==
    {EmptyMap,
     [entities |-> <<Metformin>>,
      relations |-> <<[source |-> "Metformin", target |-> "Aspirin", name |-> "treats"]>>],
     [entities |-> <<Metformin, Aspirin>>, relations |-> <<>>]}

\* the plan part of a manager answer: key missing, not a list, or a list
ManagerPlans ==
    {[summarized_text |-> "text"],
     [proposed_cohort_analyses |-> [is_list |-> FALSE, items |-> <<>>]]}
    \cup {[proposed_cohort_analyses |-> [is_list |-> TRUE, items |-> l]] :
             l \in SeqsUpTo(PlanEntries, MaxPlan)}

\* d1 | d2 for dictionaries over different keys
Merge(d1, d2) ==
    [k \in DOMAIN d1 \cup DOMAIN d2 |-> IF k \in DOMAIN d1 THEN d1[k] ELSE d2[k]]

ManagerAnswers == {Merge(g, p) : g \in ManagerGraphs, p \in ManagerPlans}

\* answers of the drug agent: empty lists; an entity with an id and a
\* relationship without relationship_type; an entity and a typed relationship
DrugAnswers ==
    {[drug_entities |-> <<>>, drug_relationships |-> <<>>],
     [drug_entities |-> <<MetforminWithId>>,
      drug_relationships |-> <<[source_drug |-> "Metformin", target_entity |-> "Aspirin"]>>],
     [drug_entities |-> <<Aspirin, Metformin>>,
      drug_relationships |-> <<[source_drug |-> "Metformin", target_entity |-> "Aspirin",
                                relationship_type |-> "treats"]>>]}

\* answers of the diagnosis agent, of the same three shapes
DiagnosisAnswers ==
    {[condition_entities |-> <<>>, condition_relationships |-> <<>>],
     [condition_entities |-> <<MetforminWithId>>,
      condition_relationships |-> <<[source_condition |-> "Metformin", target_entity |-> "Aspirin"]>>],
     [condition_entities |-> <<Aspirin, Metformin>>,
      condition_relationships |-> <<[source_condition |-> "Metformin", target_entity |-> "Aspirin",
                                     relationship_type |-> "treats"]>>]}

\* outcome of one call_llm + extract_json_from_response:
\*   "error"   call_llm returned success = False
\*   "no_json" the response held no JSON, or an empty one
\*   "json"    a non-empty JSON object
LLMFailures == {[kind |-> "error"], [kind |-> "no_json"]}

(***************************************************************************)
(* ManagerAgent.process                                                    *)
(***************************************************************************)
\* the loop that builds agent_selections, without repeated agent:cohort keys
RECURSIVE build_agent_selections(_, _, _)
build_agent_selections(cohort_analyses, processed_cohorts, agent_selections) ==
    IF cohort_analyses = <<>> THEN agent_selections
    ELSE LET an == Head(cohort_analyses)
             rest == Tail(cohort_analyses)
         IN  IF "selected_agent" \in DOMAIN an /\ "name" \in DOMAIN an
             THEN LET key == <<an.selected_agent, an.name>>
                  IN  IF key \notin processed_cohorts
                      THEN build_agent_selections(rest, processed_cohorts \cup {key},
                               Append(agent_selections,
                                      [selected_agent |-> an.selected_agent,
                                       cohort_name |-> an.name]))
                      ELSE build_agent_selections(rest, processed_cohorts, agent_selections)
             ELSE build_agent_selections(rest, processed_cohorts, agent_selections)

\* every well-formed entry queued, repeated (agent, cohort) pairs included
agent_selections_of_keeps_repeats(analysis_result) ==
    IF /\ "proposed_cohort_analyses" \in DOMAIN analysis_result
       /\ analysis_result.proposed_cohort_analyses.is_list
    THEN LET items == SelectSeq(analysis_result.proposed_cohort_analyses.items,
                                LAMBDA an : /\ "selected_agent" \in DOMAIN an
                                            /\ "name" \in DOMAIN an)
         IN  [i \in 1..Len(items) |->
                 [selected_agent |-> items[i].selected_agent,
                  cohort_name |-> items[i].name]]
    ELSE <<>>

\* agent_selections of a parsed manager answer (empty when there is no usable list)
agent_selections_of(analysis_result) ==
    IF /\ "proposed_cohort_analyses" \in DOMAIN analysis_result
       /\ analysis_result.proposed_cohort_analyses.is_list
    THEN build_agent_selections(analysis_result.proposed_cohort_analyses.items, {}, <<>>)
    ELSE <<>>

\* the waiting list started at index 0 instead of 1
pending_of_from_first(agent_selections) ==
    agent_selections

\* the tasks left waiting after the first one: range(1, len(agent_selections))
pending_of(agent_selections) ==
    [i \in 1..(Len(agent_selections) - 1) |-> agent_selections[i + 1]]

\* the agents of the waiting tasks: state["pending_agents"]
pending_agents_of(agent_selections) ==
    [i \in DOMAIN pending_of(agent_selections) |->
        pending_of(agent_selections)[i].selected_agent]

\* the cohort list filled from the first selection on
pending_cohorts_of_from_first(agent_selections) ==
    [i \in DOMAIN agent_selections |-> agent_selections[i].cohort_name]

\* the cohorts of the waiting tasks: state["pending_cohorts"]
pending_cohorts_of(agent_selections) ==
    [i \in DOMAIN pending_of(agent_selections) |->
        pending_of(agent_selections)[i].cohort_name]

\* the manager's failure path handing over to an agent instead of ending
manager_failure_next_dispatches == "drug_agent"

\* next_agent after the manager failed (LLM error or no JSON)
manager_failure_next == "end"

\* a specialist's failure path handing over to the other waiting tasks
agent_failure_next_goes_on == "drug_agent"

\* next_agent after a specialist failed
agent_failure_next == "end"

\* the targets the router's edge maps declare
router_edges == {"drug_agent", "diagnosis_agent", "end"}

\* the edge maps with the two specialists' targets crossed
router_crossed(target) ==
    CASE target = "drug_agent" -> "diagnosis_agent"
      [] target = "diagnosis_agent" -> "drug_agent"
      [] target \in router_edges -> target
      [] OTHER -> "raised"

\* the conditional edge after a node: the node named by next_agent, or a
\* KeyError when the edge map does not declare it
router(target) == IF target \in router_edges THEN target ELSE "raised"

(***************************************************************************)
(* Part II : the agent graph                                               *)
(***************************************************************************)
\* the analysis workflow is not running
AnalysisIdle ==
    /\ cohort_list = <<>>
    /\ item = 1
    /\ analysis_results = <<>>
    /\ wf_status = "off"
    /\ node = "idle"
    /\ cohort = EmptyMap
    /\ analysis = EmptyMap
    /\ is_valid = FALSE
    /\ retries = 0
    /\ validation_results = EmptyMap
    /\ mapping_result = EmptyMap
    /\ kg_load_result = EmptyMap
    /\ attempts = 0

\* process_document: initial_state, handed to graph.invoke
InitAgents ==
    /\ LoggerIdle
    /\ DocumentWorkflowIdle
    /\ CohortGraphIdle
    /\ StorageIdle
    /\ AnalysisIdle
    /\ NormalizerIdle
    /\ agent_node = "manager"
    /\ next_agent = "manager"
    /\ current_cohort = Absent
    /\ pending_agents = <<>>
    /\ pending_cohorts = <<>>
    /\ results = EmptyMap
    /\ messages = <<"human">>
    /\ chat_history = <<>>
    /\ final_result = EmptyMap
    /\ aggregations = 0
    /\ llm_log = <<>>
    /\ proposed = <<>>
    /\ dispatched = <<>>

\* ManagerAgent.process, LLM call failed or no JSON in the response
ManagerFails ==
    /\ agent_node = "manager"
    /\ \E outcome \in LLMFailures :
          /\ llm_log' = Append(llm_log, outcome.kind)
          /\ messages' = Append(messages, "manager:" \o outcome.kind)
    /\ next_agent' = manager_failure_next
    /\ agent_node' = router(next_agent')
    /\ UNCHANGED <<current_cohort, pending_agents, pending_cohorts, results,
                   chat_history, final_result, aggregations, proposed, dispatched>>
    /\ UNCHANGED outside_agents

\* ManagerAgent.process on a parsed answer
ManagerSelects ==
    /\ agent_node = "manager"
    /\ \E analysis_result \in ManagerAnswers :
          LET agent_selections == agent_selections_of(analysis_result)
              stored == IF agent_selections # <<>>
                        THEN Put(analysis_result, "agent_selection", agent_selections)
                        ELSE analysis_result
          IN  /\ results' = Put(results, "manager_analysis", stored)
              /\ IF agent_selections # <<>>
                 THEN /\ next_agent' = agent_selections[1].selected_agent
                      /\ current_cohort' = agent_selections[1].cohort_name
                      /\ pending_agents' = pending_agents_of(agent_selections)
                      /\ pending_cohorts' = pending_cohorts_of(agent_selections)
                 ELSE /\ next_agent' = "end"
                      /\ UNCHANGED <<current_cohort, pending_agents, pending_cohorts>>
              /\ proposed' = Get(Get(analysis_result, "proposed_cohort_analyses",
                                     [is_list |-> FALSE, items |-> <<>>]),
                                 "items", <<>>)
    /\ llm_log' = Append(llm_log, "json")
    /\ chat_history' = Append(chat_history,
                              [agent |-> "manager", next_agent |-> next_agent',
                               current_cohort |-> current_cohort',
                               pending_agents |-> pending_agents',
                               pending_cohorts |-> pending_cohorts'])
    /\ messages' = Append(messages, "manager:done")
    /\ agent_node' = router(next_agent')
    /\ UNCHANGED <<final_result, aggregations, dispatched>>
    /\ UNCHANGED outside_agents

\* DrugAgent.process / DiagnosisAgent.process, LLM call failed or no JSON
AgentFails(agent) ==
    /\ agent_node = agent
    /\ \E outcome \in LLMFailures :
          /\ llm_log' = Append(llm_log, outcome.kind)
          /\ messages' = Append(messages, agent \o ":" \o outcome.kind)
    /\ next_agent' = agent_failure_next
    /\ agent_node' = router(next_agent')
    /\ dispatched' = Append(dispatched, [selected_agent |-> agent, cohort_name |-> current_cohort])
    /\ UNCHANGED <<current_cohort, pending_agents, pending_cohorts, results,
                   chat_history, final_result, aggregations, proposed>>
    /\ UNCHANGED outside_agents

\* DrugAgent.process / DiagnosisAgent.process on a parsed answer; analyses
\* and single are the two keys of results the agent writes
AgentSucceeds(agent, answers, analyses, single) ==
    /\ agent_node = agent
    /\ \E answer \in answers :
          LET stored == Put(answer, "cohort_name", current_cohort)
          IN  results' = Put(Put(results, analyses,
                                 OrderedPut(Get(results, analyses, <<>>),
                                            current_cohort, stored)),
                             single, stored)
    /\ IF pending_agents # <<>> /\ pending_cohorts # <<>>
       THEN /\ next_agent' = Head(pending_agents)
            /\ pending_agents' = Tail(pending_agents)
            /\ current_cohort' = Head(pending_cohorts)
            /\ pending_cohorts' = Tail(pending_cohorts)
       ELSE /\ next_agent' = "end"
            /\ current_cohort' = ""
            /\ UNCHANGED <<pending_agents, pending_cohorts>>
    /\ llm_log' = Append(llm_log, "json")
    /\ chat_history' = Append(chat_history,
                              [agent |-> agent, next_agent |-> next_agent',
                               current_cohort |-> current_cohort',
                               pending_agents |-> pending_agents',
                               pending_cohorts |-> pending_cohorts'])
    /\ messages' = Append(messages, agent \o ":done")
    /\ agent_node' = router(next_agent')
    /\ dispatched' = Append(dispatched, [selected_agent |-> agent, cohort_name |-> current_cohort])
    /\ UNCHANGED <<final_result, aggregations, proposed>>
    /\ UNCHANGED outside_agents

DrugAgentFails == AgentFails("drug_agent")

DrugAgentSucceeds ==
    AgentSucceeds("drug_agent", DrugAnswers, "drug_analyses", "drug_analysis")

DiagnosisAgentFails == AgentFails("diagnosis_agent")

DiagnosisAgentSucceeds ==
    AgentSucceeds("diagnosis_agent", DiagnosisAnswers, "diagnosis_analyses",
                  "diagnosis_analysis")

\* the "end" node ran: graph.invoke returns the state to process_document
EndProcessing ==
    /\ agent_node = "end"
    /\ agent_node' = "returned"
    /\ UNCHANGED <<next_agent, current_cohort, pending_agents, pending_cohorts,
                   results, messages, chat_history, final_result, aggregations,
                   llm_log, proposed, dispatched>>
    /\ UNCHANGED outside_agents

\* graph.invoke raised: process_document returns its error state instead
ProcessDocumentCatches ==
    /\ agent_node = "raised"
    /\ agent_node' = "returned"
    /\ next_agent' = "end"
    /\ results' = [error |-> "exception"]
    /\ messages' = <<"human", "error">>
    /\ chat_history' = <<>>
    /\ current_cohort' = Absent
    /\ pending_agents' = <<>>
    /\ pending_cohorts' = <<>>
    /\ UNCHANGED <<final_result, aggregations, llm_log, proposed, dispatched>>
    /\ UNCHANGED outside_agents

(***************************************************************************)
(* Part II : the aggregation of extract_kg_and_cohort_analysis             *)
(***************************************************************************)
\* the lists found under key in every per-cohort analysis, in the order the
\* cohorts were stored, one after the other
RECURSIVE collect(_, _)
collect(analyses, key) ==
    IF analyses = <<>> THEN <<>>
    ELSE Get(Head(analyses).value, key, <<>>) \o collect(Tail(analyses), key)

\* drug_entities_all, drug_relationships_all, condition_..._all: from the
\* per-cohort analyses, or from the single analysis when there are none
collect_all(res, analyses, single, key) ==
    IF analyses \in DOMAIN res THEN collect(res[analyses], key)
    ELSE IF single \in DOMAIN res THEN Get(res[single], key, <<>>)
    ELSE <<>>

\* unique_drug_entities / unique_condition_entities: first entity of each
\* concept_name
RECURSIVE unique_entities(_, _, _)
unique_entities(entities_all, seen_entities, unique) ==
    IF entities_all = <<>> THEN unique
    ELSE LET entity == Head(entities_all)
         IN  IF "concept_name" \in DOMAIN entity /\ entity.concept_name \notin seen_entities
             THEN unique_entities(Tail(entities_all),
                                  seen_entities \cup {entity.concept_name},
                                  Append(unique, entity))
             ELSE unique_entities(Tail(entities_all), seen_entities, unique)

\* the test that lets one unique entity into knowledge_graph.entities
entity_is_new(entity, kg_entities) ==
    \/ /\ "id" \in DOMAIN entity
       /\ ~ \E i \in 1..Len(kg_entities) : Get(kg_entities[i], "id", None) = entity.id
    \/ /\ "concept_name" \in DOMAIN entity
       /\ ~ \E i \in 1..Len(kg_entities) :
              Get(kg_entities[i], "concept_name", None) = entity.concept_name

\* the loop that appends the unique entities to knowledge_graph.entities
RECURSIVE integrate_entities(_, _)
integrate_entities(unique, kg_entities) ==
    IF unique = <<>> THEN kg_entities
    ELSE integrate_entities(Tail(unique),
                            IF entity_is_new(Head(unique), kg_entities)
                            THEN Append(kg_entities, Head(unique))
                            ELSE kg_entities)

\* relation_key: source | target | relationship_type, 'unknown' when missing
relation_key(relation, src) ==
    <<relation[src], relation.target_entity, Get(relation, "relationship_type", "unknown")>>

\* unique_drug_relations / unique_condition_relations
RECURSIVE unique_relations(_, _, _, _)
unique_relations(relationships_all, src, seen_relations, unique) ==
    IF relationships_all = <<>> THEN unique
    ELSE LET relation == Head(relationships_all)
         IN  IF /\ src \in DOMAIN relation
                /\ "target_entity" \in DOMAIN relation
                /\ relation_key(relation, src) \notin seen_relations
             THEN unique_relations(Tail(relationships_all), src,
                                   seen_relations \cup {relation_key(relation, src)},
                                   Append(unique, relation))
             ELSE unique_relations(Tail(relationships_all), src, seen_relations, unique)

\* the test that lets one unique relationship into knowledge_graph.relations
relation_is_new(relation, src, kg_relations) ==
    ~ \E i \in 1..Len(kg_relations) :
        /\ Get(kg_relations[i], "source", None) = Get(relation, src, None)
        /\ Get(kg_relations[i], "target", None) = Get(relation, "target_entity", None)
        /\ Get(kg_relations[i], "name", None) = Get(relation, "relationship_type", None)

\* kg_relation: the relationship in knowledge-graph form
kg_relation(relation, src) ==
    [source |-> Get(relation, src, None),
     target |-> Get(relation, "target_entity", None),
     name |-> Get(relation, "relationship_type", "unknown")]

\* the loop that appends the unique relationships to knowledge_graph.relations
RECURSIVE integrate_relations(_, _, _)
integrate_relations(unique, src, kg_relations) ==
    IF unique = <<>> THEN kg_relations
    ELSE integrate_relations(Tail(unique), src,
                             IF relation_is_new(Head(unique), src, kg_relations)
                             THEN Append(kg_relations, kg_relation(Head(unique), src))
                             ELSE kg_relations)

\* manager_analysis of the results, an empty dict when there is none
manager_analysis_of(res) == Get(res, "manager_analysis", EmptyMap)

\* knowledge_graph.entities after the manager, drug and diagnosis parts
aggregate_entities(res) ==
    LET from_manager == Get(manager_analysis_of(res), "entities", <<>>)
        with_drug ==
            integrate_entities(
                unique_entities(collect_all(res, "drug_analyses", "drug_analysis",
                                            "drug_entities"), {}, <<>>),
                from_manager)
    IN  integrate_entities(
            unique_entities(collect_all(res, "diagnosis_analyses", "diagnosis_analysis",
                                        "condition_entities"), {}, <<>>),
            with_drug)

\* knowledge_graph.relations after the manager, drug and diagnosis parts
aggregate_relations(res) ==
    LET from_manager == Get(manager_analysis_of(res), "relations", <<>>)
        with_drug ==
            integrate_relations(
                unique_relations(collect_all(res, "drug_analyses", "drug_analysis",
                                             "drug_relationships"),
                                 "source_drug", {}, <<>>),
                "source_drug", from_manager)
    IN  integrate_relations(
            unique_relations(collect_all(res, "diagnosis_analyses", "diagnosis_analysis",
                                         "condition_relationships"),
                             "source_condition", {}, <<>>),
            "source_condition", with_drug)

\* cohort_results as initialised from proposed_cohort_analyses: the first
\* entry of every cohort name
RECURSIVE init_cohort_results(_, _)
init_cohort_results(cohort_analyses, cohort_results) ==
    IF cohort_analyses = <<>> THEN cohort_results
    ELSE LET an == Head(cohort_analyses)
         IN  IF /\ "selected_agent" \in DOMAIN an
                /\ "name" \in DOMAIN an
                /\ an.name \notin DOMAIN cohort_results
             THEN init_cohort_results(Tail(cohort_analyses),
                      Put(cohort_results, an.name,
                          [selected_agent |-> an.selected_agent, results |-> EmptyMap]))
             ELSE init_cohort_results(Tail(cohort_analyses), cohort_results)

\* cohort_results[cohort]["results"][key] = analysis for every stored
\* analysis whose cohort is in cohort_results
RECURSIVE attach_results(_, _, _)
attach_results(analyses, key, cohort_results) ==
    IF analyses = <<>> THEN cohort_results
    ELSE LET c == Head(analyses).key
         IN  attach_results(Tail(analyses), key,
                 IF c \in DOMAIN cohort_results
                 THEN Put(cohort_results, c,
                          [selected_agent |-> cohort_results[c].selected_agent,
                           results |-> Put(cohort_results[c].results, key,
                                           Head(analyses).value)])
                 ELSE cohort_results)

aggregate_cohort_results(res) ==
    LET pca == Get(manager_analysis_of(res), "proposed_cohort_analyses",
                   [is_list |-> FALSE, items |-> <<>>])
        initial == IF pca.is_list THEN init_cohort_results(pca.items, EmptyMap)
                   ELSE EmptyMap
        with_drug == attach_results(Get(res, "drug_analyses", <<>>), "drug_analysis", initial)
    IN  attach_results(Get(res, "diagnosis_analyses", <<>>), "diagnosis_analysis", with_drug)

\* final_result of extract_kg_and_cohort_analysis
aggregate(res) ==
    [knowledge_graph |-> [entities |-> aggregate_entities(res),
                          relations |-> aggregate_relations(res)],
     cohort_analysis |->
        LET pca == Get(manager_analysis_of(res), "proposed_cohort_analyses",
                       [is_list |-> FALSE, items |-> <<>>])
        IN  IF pca.is_list THEN pca.items ELSE <<>>,
     cohort_results |-> aggregate_cohort_results(res)]

\* the results after a pass: knowledge_graph.entities / .relations are the
\* very lists of manager_analysis, so what the pass appended is in them too
results_after_aggregate(res) ==
    IF "manager_analysis" \notin DOMAIN res THEN res
    ELSE LET ma == res.manager_analysis
             ma1 == IF "entities" \in DOMAIN ma
                    THEN Put(ma, "entities", aggregate_entities(res)) ELSE ma
             ma2 == IF "relations" \in DOMAIN ma
                    THEN Put(ma1, "relations", aggregate_relations(res)) ELSE ma1
         IN  Put(res, "manager_analysis", ma2)

\* the aggregation block of extract_kg_and_cohort_analysis applied to the
\* state process_document returned
Aggregate ==
    /\ agent_node = "returned"
    /\ aggregations < MaxAggregations
    /\ final_result' = aggregate(results)
    /\ results' = results_after_aggregate(results)
    /\ aggregations' = aggregations + 1
    /\ UNCHANGED <<agent_node, next_agent, current_cohort, pending_agents,
                   pending_cohorts, messages, chat_history, llm_log, proposed,
                   dispatched>>
    /\ UNCHANGED outside_agents

NextAgents ==
    \/ ManagerFails
    \/ ManagerSelects
    \/ DrugAgentFails
    \/ DrugAgentSucceeds
    \/ DiagnosisAgentFails
    \/ DiagnosisAgentSucceeds
    \/ EndProcessing
    \/ ProcessDocumentCatches
    \/ Aggregate

SpecAgents == InitAgents /\ [][NextAgents]_vars

(***************************************************************************)
(* Part III : responses as token sequences                                 *)
(*                                                                         *)
(* A response is a sequence of tokens, written with one blank after each   *)
(* token:  n  the JSON number 1         Q  a double quote                  *)
(*         F  a code fence ```          {  }  ,  themselves                *)
(*         T  a complete <think>...</think> block (no blank after it)      *)
(***************************************************************************)
NormMaxLen == 5

Tokens == {"n", "Q", "F", "{", "}", ",", "T"}

RECURSIVE TextsUpTo(_)
TextsUpTo(n) ==
    IF n = 0 THEN {<<>>}
    ELSE LET shorter == TextsUpTo(n - 1)
         IN  shorter \cup {Append(s, x) : s \in {t \in shorter : Len(t) = n - 1},
                                          x \in Tokens}

\* len(): characters a token takes in the response, its blank included
Width(tok) == CASE tok = "F" -> 4 [] tok = "T" -> 16 [] OTHER -> 2

RECURSIVE Chars(_)
Chars(t) == IF t = <<>> THEN 0 ELSE Width(Head(t)) + Chars(Tail(t))

\* first position >= i that holds tok, 0 when there is none
RECURSIVE IndexFrom(_, _, _)
IndexFrom(t, tok, i) ==
    IF i > Len(t) THEN 0
    ELSE IF t[i] = tok THEN i ELSE IndexFrom(t, tok, i + 1)

\* last position that holds tok, 0 when there is none
RECURSIVE LastIndex(_, _, _)
LastIndex(t, tok, i) ==
    IF i < 1 THEN 0
    ELSE IF t[i] = tok THEN i ELSE LastIndex(t, tok, i - 1)

\* json.loads succeeds: a number, a string, or an object without members
is_json(t) ==
    \/ t = <<"n">>
    \/ /\ Len(t) >= 2
       /\ t[1] = "Q"
       /\ t[Len(t)] = "Q"
       /\ \A i \in 2..(Len(t) - 1) : t[i] # "Q"
    \/ t = <<"{", "}">>

\* re.sub(r'<think>[\s\S]*?</think>', '', text)
remove_think(t) == SelectSeq(t, LAMBDA tok : tok # "T")

\* re.findall(r'```(?:json)?\s*([\s\S]*?)```', text) from position i on
RECURSIVE fence_blocks(_, _)
fence_blocks(t, i) ==
    LET a == IndexFrom(t, "F", i)
        b == IF a = 0 THEN 0 ELSE IndexFrom(t, "F", a + 1)
    IN  IF b = 0 THEN <<>>
        ELSE <<SubSeq(t, a + 1, b - 1)>> \o fence_blocks(t, b + 1)

\* max(matches, key=len): the first of the longest matches
RECURSIVE longest(_)
longest(ms) ==
    IF Len(ms) = 1 THEN ms[1]
    ELSE LET rest == longest(Tail(ms))
         IN  IF Chars(ms[1]) >= Chars(rest) THEN ms[1] ELSE rest

\* re.findall(r'(\{[\s\S]*\})', text): from the first { to the last }
brace_block(t) ==
    LET a == IndexFrom(t, "{", 1)
        b == LastIndex(t, "}", Len(t))
    IN  IF a # 0 /\ b > a THEN SubSeq(t, a, b) ELSE <<>>

\* _fix_json_syntax: of its substitutions only the trailing-comma one can
\* match these tokens: every comma directly before a } is removed
RECURSIVE fix_json_syntax(_)
fix_json_syntax(t) ==
    IF t = <<>> THEN <<>>
    ELSE IF Len(t) >= 2 /\ t[1] = "," /\ t[2] = "}"
         THEN fix_json_syntax(Tail(t))
         ELSE <<Head(t)>> \o fix_json_syntax(Tail(t))

\* GuidelineProcessor.extract_json_from_markdown: the string it returns and
\* the return statement that produced it
extract_json_from_markdown_whole_first(text) ==
    LET t == remove_think(text)
        matches == fence_blocks(t, 1)
        bracket == brace_block(t)
        fixed == fix_json_syntax(t)
    IN  IF is_json(t)
        THEN [value |-> t, via |-> "whole_text"]
        ELSE IF matches # <<>> /\ is_json(longest(matches))
        THEN [value |-> longest(matches), via |-> "code_block"]
        ELSE IF bracket # <<>> /\ is_json(bracket)
        THEN [value |-> bracket, via |-> "brace_block"]
        ELSE IF is_json(fixed)
        THEN [value |-> fixed, via |-> "fixed_syntax"]
        ELSE [value |-> t, via |-> "unparsed_text"]

extract_json_from_markdown(text) ==
    LET t == remove_think(text)
        matches == fence_blocks(t, 1)
        bracket == brace_block(t)
        fixed == fix_json_syntax(t)
    IN  IF matches # <<>> /\ is_json(longest(matches))
        THEN [value |-> longest(matches), via |-> "code_block"]
        ELSE IF is_json(t)
        THEN [value |-> t, via |-> "whole_text"]
        ELSE IF bracket # <<>> /\ is_json(bracket)
        THEN [value |-> bracket, via |-> "brace_block"]
        ELSE IF is_json(fixed)
        THEN [value |-> fixed, via |-> "fixed_syntax"]
        ELSE [value |-> t, via |-> "unparsed_text"]

\* the empty dict {} that extract_json_from_response returns on failure
EmptyDict == <<"{", "}">>

\* BaseAgent.extract_json_from_response: re.search takes the leftmost of a
\* fenced block and a brace block; an empty fenced group makes
\* json.loads(None) raise TypeError, which the except clause does not catch
extract_json_from_response(response) ==
    LET a == IndexFrom(response, "F", 1)
        b == IF a = 0 THEN 0 ELSE IndexFrom(response, "F", a + 1)
        c == IndexFrom(response, "{", 1)
        d == LastIndex(response, "}", Len(response))
        fenced == b # 0
        braced == c # 0 /\ d > c
        group1 == SubSeq(response, a + 1, b - 1)
        group2 == SubSeq(response, c, d)
    IN  IF fenced /\ (~braced \/ a < c)
        THEN IF group1 = <<>>
             THEN [raised |-> TRUE, value |-> <<>>]
             ELSE [raised |-> FALSE,
                   value |-> IF is_json(group1) THEN group1 ELSE EmptyDict]
        ELSE IF braced
        THEN [raised |-> FALSE,
              value |-> IF is_json(group2) THEN group2 ELSE EmptyDict]
        ELSE [raised |-> FALSE, value |-> EmptyDict]

\* analyze_cohort: the fences cut from both ends of the response
response_cleaned(response) ==
    LET no_tail == IF response # <<>> /\ response[Len(response)] = "F"
                   THEN SubSeq(response, 1, Len(response) - 1)
                   ELSE response
    IN  IF no_tail # <<>> /\ no_tail[1] = "F" THEN Tail(no_tail) ELSE no_tail

\* analyze_cohort: which of its three branches a response ends in; a parsed
\* number makes validate_extracted_entities raise TypeError
response_outcome(response) ==
    LET cleaned == response_cleaned(response)
    IN  IF ~is_json(cleaned) THEN [kind |-> "not_json", entities |-> {}]
        ELSE IF cleaned = <<"n">> THEN [kind |-> "service_error", entities |-> {}]
        ELSE [kind |-> "json", entities |-> {}]

\* analyze_cohort: the entry stored for the cohort, raw_response included
parsed_entry(response, cohort_content) ==
    LET entry == analysis_entry(response_outcome(response), cohort_content)
    IN  [status |-> entry.status,
         entities |-> entry.entities,
         raw_response |-> IF entry.status = "error" THEN None ELSE response]

(***************************************************************************)
(* Part III : actions                                                      *)
(***************************************************************************)
InitNormalizer ==
    /\ LoggerIdle
    /\ DocumentWorkflowIdle
    /\ CohortGraphIdle
    /\ StorageIdle
    /\ AnalysisIdle
    /\ AgentsIdle
    /\ raw_text \in TextsUpTo(NormMaxLen)
    /\ parser = "ready"
    /\ parsed = <<>>
    /\ handling = "none"

\* GuidelineProcessor.extract_json_from_markdown(text); nothing in the
\* repository consumes what it returns
ExtractJsonFromMarkdown ==
    /\ parser = "ready"
    /\ parser' = "markdown"
    /\ parsed' = extract_json_from_markdown(raw_text)
    /\ handling' = "returned"
    /\ UNCHANGED raw_text
    /\ UNCHANGED outside_normalizer

\* the string the normalizer returned is normalized again
Renormalize ==
    /\ parser = "markdown"
    /\ parsed.via # "unparsed_text"
    /\ raw_text' = parsed.value
    /\ parser' = "ready"
    /\ parsed' = <<>>
    /\ handling' = "none"
    /\ UNCHANGED outside_normalizer

\* DrugAgent.process / DiagnosisAgent.process: extract_json_from_response
\* and the branch on its result
AgentExtractsJson ==
    /\ parser = "ready"
    /\ parser' = "response"
    /\ parsed' = extract_json_from_response(raw_text)
    /\ handling' = IF parsed'.raised THEN "raised"
                   ELSE IF parsed'.value = EmptyDict THEN agent_failure_next
                   ELSE "stored"
    /\ UNCHANGED raw_text
    /\ UNCHANGED outside_normalizer

\* analyze_cohort on one response of a first attempt, followed by
\* validate_analysis and the router
AnalyzeCohortParses ==
    /\ parser = "ready"
    /\ parser' = "analyze"
    /\ parsed' = parsed_entry(raw_text, CohortContent["c1"])
    /\ LET valid == cohort_is_valid(parsed')
       IN  handling' = route_after_validation(valid, retries_after_validation(valid, 0))
    /\ UNCHANGED raw_text
    /\ UNCHANGED outside_normalizer

NextNormalizer ==
    \/ ExtractJsonFromMarkdown
    \/ Renormalize
    \/ AgentExtractsJson
    \/ AnalyzeCohortParses

SpecNormalizer == InitNormalizer /\ [][NextNormalizer]_vars

(***************************************************************************)
(* Claims about the analysis workflow                                      *)
(***************************************************************************)

\* C1: in every reachable state the retry counter of the cohort being
\* analysed, and the counter recorded for every cohort already finished,
\* lies between 0 and MAX_RETRIES inclusive.
C1_RetryBound ==
    /\ retries \in 0..MAX_RETRIES
    /\ \A i \in 1..Len(analysis_results) :
          analysis_results[i].retries \in 0..MAX_RETRIES

\* a cohort that failed every validation: the counter sits at MAX_RETRIES
\* and the router has given up on it
C1_Witness ==
    /\ retries = MAX_RETRIES
    /\ ~is_valid
    /\ node = "raised"

\* C2: once analyze_cohort has been entered for a cohort, the
\* analyse -> validate loop of that cohort is eventually left, whatever the
\* LLM outcomes are.
C2_LoopStops ==
    (node = "analyze_cohort") ~> (node \notin {"analyze_cohort", "validate_analysis",
                                              "route_after_validation"})

\* a cohort that was retried and then judged valid has left the loop
C2_Witness ==
    /\ node = "mapping_to_omop"
    /\ retries > 0
    /\ is_valid

\* C10: a failure inside one cohort's processing (LLM error, unparsable
\* output, exhausted retries) never leaves run_full_workflow as an
\* exception: the workflow never ends by raising.
C10_NoExceptionEscapes ==
    wf_status # "raised"

(***************************************************************************)
(* Claims about the multi-agent system                                     *)
(***************************************************************************)
\* positions of proposed_cohort_analyses that carry both keys
WellFormed(i) ==
    "selected_agent" \in DOMAIN proposed[i] /\ "name" \in DOMAIN proposed[i]

\* positions that are the first of their (agent, cohort) pair
Kept ==
    {i \in 1..Len(proposed) :
        /\ WellFormed(i)
        /\ \A j \in 1..(i - 1) :
              WellFormed(j) =>
                 \/ proposed[j].selected_agent # proposed[i].selected_agent
                 \/ proposed[j].name # proposed[i].name}

\* the k-th kept position
KthKept(k) ==
    CHOOSE i \in Kept : Cardinality({j \in Kept : j < i}) = k - 1

\* every planned task names an agent that has a node in the graph
PlanIsRoutable ==
    \A i \in Kept : proposed[i].selected_agent \in {"drug_agent", "diagnosis_agent"}

\* C3: when a cohort's agent fails the run is not aborted: once the run
\* has returned, every task of the plan was dispatched, the ones after a
\* failed cohort included.
C3_FailureDoesNotAbortRun ==
    (agent_node = "returned" /\ PlanIsRoutable)
        => Len(dispatched) = Cardinality(Kept)

\* C4: specialist runs happen in the order of proposed_cohort_analyses with
\* repeated (agent, cohort) pairs removed: the k-th run is the k-th task of
\* the plan, so no task runs before the tasks ahead of it.
C4_DispatchInPlanOrder ==
    /\ Len(dispatched) <= Cardinality(Kept)
    /\ \A k \in 1..Len(dispatched) :
          /\ dispatched[k].selected_agent = proposed[KthKept(k)].selected_agent
          /\ dispatched[k].cohort_name = proposed[KthKept(k)].name

\* a run over a plan that had a repeated entry removed and two tasks left,
\* both of them dispatched
C4_Witness ==
    /\ agent_node = "returned"
    /\ Len(proposed) = 3
    /\ Cardinality(Kept) = 2
    /\ Len(dispatched) = 2
    /\ dispatched[1] # dispatched[2]

kg_entities == final_result.knowledge_graph.entities

kg_relations == final_result.knowledge_graph.relations

\* C5: after aggregation the source and the target of every relation are
\* the concept name of an entity of the same knowledge graph.
C5_NoDanglingRelation ==
    aggregations > 0 =>
        \A i \in 1..Len(kg_relations) :
            /\ \E j \in 1..Len(kg_entities) :
                  Get(kg_entities[j], "concept_name", None) = kg_relations[i].source
            /\ \E j \in 1..Len(kg_entities) :
                  Get(kg_entities[j], "concept_name", None) = kg_relations[i].target

\* C6: after aggregation no two entities of the knowledge graph share a
\* concept name (the first one met is the only one kept).
C6_OneEntityPerConceptName ==
    aggregations > 0 =>
        \A i, j \in 1..Len(kg_entities) :
            i < j => Get(kg_entities[i], "concept_name", None)
                        # Get(kg_entities[j], "concept_name", None)

\* C7: after aggregation no two relations of the knowledge graph share
\* their (source, target, type), relations without a type included.
C7_OneRelationPerTriple ==
    aggregations > 0 =>
        \A i, j \in 1..Len(kg_relations) :
            i < j =>
                \/ kg_relations[i].source # kg_relations[j].source
                \/ kg_relations[i].target # kg_relations[j].target
                \/ Get(kg_relations[i], "name", None) # Get(kg_relations[j], "name", None)

\* C8: a second pass of the aggregation over the same collected results
\* returns the knowledge graph of the first pass.
C8_AggregationIsIdempotent ==
    [][(aggregations = 1 /\ aggregations' = 2)
          => final_result'.knowledge_graph = final_result.knowledge_graph]_vars

\* C9: when the manager's LLM call fails or its response has no JSON, no
\* specialist is dispatched, no further LLM call is made, the graph goes to
\* its end, and the aggregated knowledge graph is empty.
C9_PlanningFailureYieldsNothing ==
    (llm_log # <<>> /\ llm_log[1] \in {"error", "no_json"}) =>
        /\ dispatched = <<>>
        /\ Len(llm_log) = 1
        /\ agent_node \in {"end", "returned"}
        /\ results = EmptyMap
        /\ aggregations > 0 => (kg_entities = <<>> /\ kg_relations = <<>>)

\* the manager's response held no JSON and the run was aggregated
C9_Witness ==
    /\ llm_log = <<"no_json">>
    /\ agent_node = "returned"
    /\ aggregations > 0

(***************************************************************************)
(* Claims about the response normalizers                                   *)
(***************************************************************************)
\* the response after the <think> blocks are cut, and what each strategy
\* of extract_json_from_markdown finds in it
Stripped == remove_think(raw_text)
CodeBlockParses ==
    fence_blocks(Stripped, 1) # <<>> /\ is_json(longest(fence_blocks(Stripped, 1)))
WholeTextParses == is_json(Stripped)
BraceBlockParses == brace_block(Stripped) # <<>> /\ is_json(brace_block(Stripped))
FixedSyntaxParses == is_json(fix_json_syntax(Stripped))

C12_ValidJsonUnchanged ==
    (parser = "markdown" /\ is_json(raw_text)) => parsed.value = raw_text

\* the downstream handling that amounts to a retry of the same cohort
RetryHandlings == {"retry_analysis"}

\* no strategy of the normalizer that ran finds JSON in the response
NothingParses ==
    CASE parser = "markdown" ->
            ~(CodeBlockParses \/ WholeTextParses \/ BraceBlockParses
                \/ FixedSyntaxParses)
      [] parser = "response" ->
            /\ ~is_json(brace_block(raw_text))
            /\ \A i \in 1..Len(fence_blocks(raw_text, 1)) :
                  ~is_json(fence_blocks(raw_text, 1)[i])
      [] parser = "analyze" -> ~is_json(response_cleaned(raw_text))
      [] OTHER -> FALSE

\* C13: when nothing in the response parses, the normalizer does not raise,
\* what it returns is marked as an error and carries the original text,
\* and the caller handles it as an invalid result that is retried.
C13_UnparsableIsRetryableError ==
    NothingParses =>
        CASE parser = "markdown" ->
                parsed.via = "unparsed_text" /\ parsed.value = raw_text
          [] parser = "response" ->
                ~parsed.raised /\ handling \in RetryHandlings
          [] OTHER ->
                /\ parsed.status \in {"error", "error_fallback"}
                /\ parsed.raw_response = raw_text
                /\ handling \in RetryHandlings

(***************************************************************************)
(* Claims about failures and retries                                       *)
(***************************************************************************)
\* C14: a failed LLM call of a specialist agent is answered by a retry:
\* the step in which the call fails leaves the same agent, with the same
\* cohort, as the next one to run.
C14_AgentErrorIsRetried ==
    [][(/\ agent_node \in {"drug_agent", "diagnosis_agent"}
        /\ llm_log' = Append(llm_log, "error"))
          => (agent_node' = agent_node /\ current_cohort' = current_cohort)]_vars

\* every cohort of the item came back as parsed JSON, none of them with an
\* entity of the four medical kinds
StructurallyValidWithoutEntities ==
    /\ DOMAIN analysis # {}
    /\ \A c \in DOMAIN analysis :
          /\ analysis[c].status = "success"
          /\ ~has_medical_entities(analysis[c].entities)

\* C15: an output that parsed but holds no domain entity is analysed again
\* while retries are left, and once they are used up the invocation ends
\* normally, so that the run goes on with the degraded result.
C15_DegradedResultAccepted ==
    [][(node = "route_after_validation" /\ StructurallyValidWithoutEntities)
          => node' = IF retries < MAX_RETRIES THEN "analyze_cohort" ELSE END]_vars

(***************************************************************************)
(* Claims about the artifact and the plan                                  *)
(***************************************************************************)
\* what became of the task of plan position i: its run stored an analysis,
\* its run failed, or the run ended before it was dispatched
TaskOutcome(i) ==
    LET runs == {k \in 1..Len(dispatched) :
                    /\ dispatched[k].selected_agent = proposed[i].selected_agent
                    /\ dispatched[k].cohort_name = proposed[i].name}
    IN  IF runs = {} THEN "never_run"
        ELSE IF \E k \in runs : llm_log[k + 1] = "json" THEN "extracted"
        ELSE "failed"

\* what the artifact shows for a cohort: its status field and whether any
\* analysis is attached to it
ArtifactEvidence(name) ==
    IF name \notin DOMAIN final_result.cohort_results THEN <<Absent, FALSE>>
    ELSE <<Get(final_result.cohort_results[name], "status", Absent),
           final_result.cohort_results[name].results # EmptyMap>>

\* C16: the artifact has an entry with an explicit status for every cohort
\* of the plan, and two cohorts whose tasks ended differently (extracted,
\* failed, never run) never look the same in it.
C16_StatusForEveryCohort ==
    aggregations > 0 =>
        /\ \A i \in Kept : ArtifactEvidence(proposed[i].name)[1] # Absent
        /\ \A i, j \in Kept :
              TaskOutcome(i) # TaskOutcome(j)
                 => ArtifactEvidence(proposed[i].name) # ArtifactEvidence(proposed[j].name)

\* every well-formed entry of the plan selects the drug agent
PlanIsDrugOnly ==
    \A i \in 1..Len(proposed) :
        WellFormed(i) => proposed[i].selected_agent = "drug_agent"

\* the (agent, cohort) pairs the planner made
PlannedPairs ==
    {[selected_agent |-> proposed[i].selected_agent, cohort_name |-> proposed[i].name] :
        i \in {j \in 1..Len(proposed) : WellFormed(j)}}

\* C17: under a plan that selects only the drug agent the diagnosis agent
\* never runs, and every run, the one about to start included, is of an
\* agent and a cohort that the planner paired.
C17_DispatchMatchesPlan ==
    /\ PlanIsDrugOnly =>
          /\ agent_node # "diagnosis_agent"
          /\ \A k \in 1..Len(dispatched) : dispatched[k].selected_agent # "diagnosis_agent"
    /\ \A k \in 1..Len(dispatched) : dispatched[k] \in PlannedPairs
    /\ agent_node \in {"drug_agent", "diagnosis_agent"}
          => [selected_agent |-> agent_node, cohort_name |-> current_cohort] \in PlannedPairs

\* a finished run over a plan of two drug tasks, both of them run
C17_Witness ==
    /\ agent_node = "returned"
    /\ PlanIsDrugOnly
    /\ Cardinality(Kept) = 2
    /\ Len(dispatched) = 2
    /\ llm_log = <<"json", "json", "json">>

\* the tasks of the run in queue order: the ones already run, the one
\* running, the ones waiting
QueuedTasks ==
    dispatched
    \o (IF agent_node \in {"drug_agent", "diagnosis_agent"}
        THEN <<[selected_agent |-> agent_node, cohort_name |-> current_cohort]>>
        ELSE <<>>)
    \o [i \in 1..Len(pending_agents) |->
           [selected_agent |-> pending_agents[i], cohort_name |-> pending_cohorts[i]]]

\* C18: no two tasks of the run have the same identifier
\* selected_agent:cohort_name, neither in the agent_selection list the
\* manager stores nor among the tasks run, running and waiting.
C18_TaskIdsDistinct ==
    /\ \A i, j \in 1..Len(QueuedTasks) : i # j => QueuedTasks[i] # QueuedTasks[j]
    /\ ("manager_analysis" \in DOMAIN results
           /\ "agent_selection" \in DOMAIN results.manager_analysis)
          => LET sel == results.manager_analysis.agent_selection
             IN  \A i, j \in 1..Len(sel) : i # j => sel[i] # sel[j]

\* the plan repeated a pair and the queue holds it once: one task running,
\* one waiting, from three plan entries
C18_Witness ==
    /\ Len(proposed) = 3
    /\ Cardinality(Kept) = 2
    /\ agent_node \in {"drug_agent", "diagnosis_agent"}
    /\ Len(pending_agents) = 1
    /\ dispatched = <<>>

(***************************************************************************)
(* Claims about attempts                                                   *)
(***************************************************************************)
\* C19: when the cohorts of an item are analysed again, what is stored
\* afterwards is the result of that attempt alone: one entry per cohort of
\* the item, each the entry of a single LLM outcome, and the validation
\* results that follow are those of these entries.
C19_LatestAttemptOnly ==
    [][/\ (node = "analyze_cohort" /\ node' = "validate_analysis")
            => \E outcome \in [DOMAIN cohort -> LLMOutcomes] :
                  analysis' = [c \in DOMAIN cohort |->
                                  [status |-> CASE outcome[c].kind = "json" -> "success"
                                                [] outcome[c].kind = "not_json" -> "error_fallback"
                                                [] OTHER -> "error",
                                   entities |-> CASE outcome[c].kind = "json" -> outcome[c].entities
                                                  [] outcome[c].kind = "not_json" ->
                                                        generate_dummy_entities(cohort[c])
                                                  [] OTHER -> {}]]
       /\ (node = "validate_analysis" /\ node' = "route_after_validation")
            => validation_results' = [c \in DOMAIN analysis |-> cohort_is_valid(analysis[c])]
      ]_vars

\* a second attempt whose result for some cohort is valid where the first
\* attempt's was not
C19_Witness ==
    /\ node = "validate_analysis"
    /\ attempts = 2
    /\ \E c \in DOMAIN analysis :
          /\ c \in DOMAIN validation_results
          /\ ~validation_results[c]
          /\ cohort_is_valid(analysis[c])

\* C20: a cohort item is given up, the router not sending it back to
\* analyze_cohort after a failed validation, only when it has been analysed
\* MAX_RETRIES + 1 times, the first attempt and MAX_RETRIES retries.
C20_GivenUpAfterAllRetries ==
    [][(node = "route_after_validation" /\ ~is_valid /\ node' # "analyze_cohort")
          => attempts = MAX_RETRIES + 1]_vars

(***************************************************************************)
(* Claims about the task queue                                             *)
(***************************************************************************)
\* the manager answered with a plan and no LLM call of the run failed
AllCallsSucceeded ==
    /\ llm_log # <<>>
    /\ \A k \in 1..Len(llm_log) : llm_log[k] = "json"

\* the cohorts that have an analysis stored under results[analyses]
StoredCohorts(analyses) ==
    {Get(results, analyses, <<>>)[k].key : k \in 1..Len(Get(results, analyses, <<>>))}

\* the key of results under which an agent stores its per-cohort analyses
AnalysesKey(agent) ==
    IF agent = "drug_agent" THEN "drug_analyses" ELSE "diagnosis_analyses"

\* C23: a run in which every agent call succeeded has, once it returned,
\* both pending lists empty, every task of the plan run exactly once, and
\* an analysis stored for the (agent, cohort) of every task.
C23_EveryTaskProcessedOnce ==
    (agent_node = "returned" /\ AllCallsSucceeded) =>
        /\ pending_agents = <<>>
        /\ pending_cohorts = <<>>
        /\ Len(dispatched) = Cardinality(Kept)
        /\ \A i \in Kept :
              /\ Cardinality({k \in 1..Len(dispatched) :
                                 /\ dispatched[k].selected_agent = proposed[i].selected_agent
                                 /\ dispatched[k].cohort_name = proposed[i].name}) = 1
              /\ proposed[i].name \in StoredCohorts(AnalysesKey(proposed[i].selected_agent))

(***************************************************************************)
(* Claims about the order of the analysis nodes                            *)
(***************************************************************************)

\* mapping_to_omop is entered only from the routing step of a pass judged valid
MappingOnlyAfterValid ==
    (node' = "mapping_to_omop" /\ node # "mapping_to_omop") =>
        (node = "route_after_validation" /\ is_valid)

\* load_to_kg is entered only from mapping_to_omop
LoadOnlyAfterMapping ==
    (node' = "load_to_kg" /\ node # "load_to_kg") => node = "mapping_to_omop"

\* C24: mapping_to_omop and load_to_kg run only after a validate_analysis
\* pass that judged the analysis valid, load_to_kg runs only after
\* mapping_to_omop, and an analysis that was never judged valid is never
\* mapped or loaded.
C24_LoadOnlyAfterValidMapping ==
    /\ [][MappingOnlyAfterValid /\ LoadOnlyAfterMapping]_vars
    /\ [](node \in {"mapping_to_omop", "load_to_kg"} => is_valid)
    /\ [](kg_load_result # EmptyMap =>
             (is_valid /\ DOMAIN mapping_result = DOMAIN kg_load_result))
    /\ [](\A k \in 1..Len(analysis_results) :
             analysis_results[k].loaded # {} => analysis_results[k].is_valid)

\* an analysis judged valid on a retry has been mapped and loaded
C24_Witness ==
    /\ node = END
    /\ is_valid
    /\ retries > 0
    /\ kg_load_result # EmptyMap
    /\ mapping_result # EmptyMap

\* the i-th waiting task as the two lists give it
PendingTask(i) ==
    [selected_agent |-> pending_agents[i], cohort_name |-> pending_cohorts[i]]

\* C25: pending_agents and pending_cohorts always have the same length, and
\* their i-th elements are the agent and the cohort of one planned task: the
\* two lists together are the last tasks of the plan, in the plan's order.
C25_PendingListsAligned ==
    /\ Len(pending_agents) = Len(pending_cohorts)
    /\ Len(pending_agents) <= Cardinality(Kept)
    /\ \A i \in 1..Len(pending_agents) :
          LET task == proposed[KthKept(Cardinality(Kept) - Len(pending_agents) + i)]
          IN  /\ pending_agents[i] = task.selected_agent
              /\ pending_cohorts[i] = task.name

\* a specialist has run, took one task off both lists and left one waiting
C25_Witness ==
    /\ Cardinality(Kept) = 3
    /\ Len(dispatched) = 1
    /\ Len(pending_agents) = 1
    /\ Len(pending_cohorts) = 1
    /\ pending_agents[1] # next_agent
    /\ agent_node \in {"drug_agent", "diagnosis_agent"}

\* C26: at every routing step next_agent is one of the three targets the
\* edge maps declare ('drug_agent', 'diagnosis_agent', 'end'), whatever plan
\* the manager's LLM returned.
C26_NextAgentIsDeclaredTarget ==
    llm_log # <<>> => next_agent \in router_edges

\* C27: every value the analysis graph's route_after_validation can return
\* is a target declared in the path map of the conditional edge, for every
\* combination of is_valid and retries.
C27_RouteTargetIsDeclared ==
    node = "route_after_validation" =>
        route_after_validation(is_valid, retries) \in DOMAIN validation_edges

(***************************************************************************)
(* Claims about a specialist's failure path                                *)
(***************************************************************************)

\* the step of a specialist whose LLM call failed or gave no JSON
SpecialistFailureStep ==
    /\ agent_node \in {"drug_agent", "diagnosis_agent"}
    /\ Len(llm_log') = Len(llm_log) + 1
    /\ llm_log'[Len(llm_log')] \in {"error", "no_json"}

MaxEntities == 2

\* most relationships of one kind in the aggregated results
MaxRelationships == 1

\* the values str(uuid.uuid4())[:8] can take
UuidPool == {"0a", "0b"}

ConditionEntities ==
    {[concept_name |-> "A", severity |-> "mild"], [severity |-> "mild"]}

DrugEntities ==
    {[concept_name |-> "A", dosing |-> [dose |-> "10mg", route |-> ""]],
     [concept_name |-> "B"]}

ConditionRelationships ==
    {[source_condition |-> "A", target_entity |-> "B", relationship_type |-> "treats"],
     [source_condition |-> "A", relationship_type |-> "treats"]}

DrugRelationships ==
    {[source_drug |-> "B", target_entity |-> "B", relationship_type |-> "CAUSES"],
     [source_drug |-> "A", target_entity |-> "B", relationship_type |-> ""]}

\* aggregated results that lack a section or a list, or hold a drug whose
\* name and dosing are blank
PartialResults ==
    {EmptyMap,
     [diagnostic |-> [condition_entities |-> <<[concept_name |-> "A"]>>]],
     [drug |-> [drug_relationships |->
                  <<[source_drug |-> "A", target_entity |-> "B",
                     relationship_type |-> "treats"]>>]],
     [drug |-> [drug_entities |->
                  <<[concept_name |-> "", dosing |-> [dose |-> "", route |-> ""]],
                    [concept_name |-> "B", dosing |-> [dose |-> "", route |-> ""]],
                    [concept_name |-> "A", dosing |-> EmptyMap]>>,
                drug_relationships |->
                  <<[source_drug |-> "B", target_entity |-> "A",
                     relationship_type |-> "treats"]>>]]}

\* the aggregated results handed to generate_knowledge_graph
IsAggregatedResults(results_in) ==
    \/ results_in \in PartialResults
    \/ \E ce \in SeqsUpTo(ConditionEntities, MaxEntities),
          cr \in SeqsUpTo(ConditionRelationships, MaxRelationships),
          de \in SeqsUpTo(DrugEntities, MaxEntities),
          dr \in SeqsUpTo(DrugRelationships, MaxRelationships) :
          results_in =
             [diagnostic |-> [condition_entities |-> ce, condition_relationships |-> cr],
              drug |-> [drug_entities |-> de, drug_relationships |-> dr]]

\* relationship_type.upper()
upper(relationship_type) ==
    CASE relationship_type = "treats" -> "TREATS"
      [] OTHER -> relationship_type

\* the list found under section/key, when both keys are present
section_list(results_in, section, key) ==
    IF section \in DOMAIN results_in /\ key \in DOMAIN results_in[section]
    THEN results_in[section][key]
    ELSE <<>>

\* the loop over condition_entities; acc holds nodes, edges, entity_id_map
\* and the number of uuid4 calls made so far
RECURSIVE condition_nodes(_, _, _)
condition_nodes(entities, uuids, acc) ==
    IF entities = <<>> THEN acc
    ELSE LET entity == Head(entities)
             entity_name == Get(entity, "concept_name", "")
             node_id == "condition_" \o uuids[acc.calls + 1]
         IN  IF entity_name = ""
             THEN condition_nodes(Tail(entities), uuids, acc)
             ELSE condition_nodes(Tail(entities), uuids,
                     [acc EXCEPT
                        !.entity_id_map = Put(@, entity_name, node_id),
                        !.nodes = Append(@, [id |-> node_id, label |-> "Condition",
                                             properties |-> [name |-> entity_name]]),
                        !.calls = @ + 1])

\* "dosing" in entity and entity["dosing"] and any(dosing.values())
has_dosing(entity) ==
    /\ "dosing" \in DOMAIN entity
    /\ DOMAIN entity.dosing # {}
    /\ \E k \in DOMAIN entity.dosing : entity.dosing[k] # ""

\* {k: v for k, v in dosing.items() if v}
dosing_properties(dosing) ==
    [k \in {x \in DOMAIN dosing : dosing[x] # ""} |-> dosing[k]]

\* the loop over drug_entities
RECURSIVE drug_nodes(_, _, _)
drug_nodes(entities, uuids, acc) ==
    IF entities = <<>> THEN acc
    ELSE LET entity == Head(entities)
             entity_name == Get(entity, "concept_name", "")
             node_id == "drug_" \o uuids[acc.calls + 1]
             dosing_id == "dosing_" \o uuids[acc.calls + 2]
             with_drug ==
                 [acc EXCEPT
                    !.entity_id_map = Put(@, entity_name, node_id),
                    !.nodes = Append(@, [id |-> node_id, label |-> "Drug",
                                         properties |-> [name |-> entity_name]]),
                    !.calls = @ + 1]
             with_dosing ==
                 [with_drug EXCEPT
                    !.nodes = Append(@, [id |-> dosing_id, label |-> "Dosing",
                                         properties |-> dosing_properties(entity.dosing)]),
                    !.edges = Append(@, [source |-> node_id, target |-> dosing_id,
                                         type |-> "HAS_DOSING"]),
                    !.calls = @ + 1]
         IN  IF entity_name = ""
             THEN drug_nodes(Tail(entities), uuids, acc)
             ELSE drug_nodes(Tail(entities), uuids,
                             IF has_dosing(entity) THEN with_dosing ELSE with_drug)

\* an edge for every relationship, whether or not its names are nodes
relationship_edge_unchecked(rel, source_key, entity_id_map) ==
    LET source_name == Get(rel, source_key, "")
        target_name == Get(rel, "target_entity", "")
        relationship_type == Get(rel, "relationship_type", "")
    IN  IF source_name = "" \/ target_name = "" \/ relationship_type = ""
        THEN <<>>
        ELSE <<[source |-> Get(entity_id_map, source_name, source_name),
                target |-> Get(entity_id_map, target_name, target_name),
                type |-> upper(relationship_type)]>>

\* the body of the loops over the relationships: the edge of one
\* relationship, or nothing
relationship_edge(rel, source_key, entity_id_map) ==
    LET source_name == Get(rel, source_key, "")
        target_name == Get(rel, "target_entity", "")
        relationship_type == Get(rel, "relationship_type", "")
    IN  IF source_name = "" \/ target_name = "" \/ relationship_type = ""
        THEN <<>>
        ELSE IF source_name \in DOMAIN entity_id_map
                /\ target_name \in DOMAIN entity_id_map
             THEN <<[source |-> entity_id_map[source_name],
                     target |-> entity_id_map[target_name],
                     type |-> upper(relationship_type)]>>
             ELSE <<>>

\* the loops over condition_relationships and drug_relationships
RECURSIVE relationship_edges(_, _, _)
relationship_edges(relationships, source_key, acc) ==
    IF relationships = <<>> THEN acc
    ELSE relationship_edges(Tail(relationships), source_key,
            [acc EXCEPT !.edges = @ \o relationship_edge(Head(relationships),
                                                         source_key,
                                                         acc.entity_id_map)])

\* the uuid4 calls generate_knowledge_graph makes on these results
uuid_calls(results_in) ==
    LET named(entities) ==
            {i \in 1..Len(entities) : Get(entities[i], "concept_name", "") # ""}
        ce == section_list(results_in, "diagnostic", "condition_entities")
        de == section_list(results_in, "drug", "drug_entities")
    IN  Cardinality(named(ce)) + Cardinality(named(de))
        + Cardinality({i \in named(de) : has_dosing(de[i])})

generate_knowledge_graph(results_in, uuids) ==
    LET start == [nodes |-> <<>>, edges |-> <<>>, entity_id_map |-> EmptyMap,
                  calls |-> 0]
        conditions ==
            condition_nodes(section_list(results_in, "diagnostic", "condition_entities"),
                            uuids, start)
        drugs ==
            drug_nodes(section_list(results_in, "drug", "drug_entities"),
                       uuids, conditions)
        condition_rels ==
            relationship_edges(
                section_list(results_in, "diagnostic", "condition_relationships"),
                "source_condition", drugs)
        drug_rels ==
            relationship_edges(
                section_list(results_in, "drug", "drug_relationships"),
                "source_drug", condition_rels)
    IN  [nodes |-> drug_rels.nodes, edges |-> drug_rels.edges]

InitStorage ==
    /\ LoggerIdle
    /\ DocumentWorkflowIdle
    /\ CohortGraphIdle
    /\ AnalysisIdle
    /\ AgentsIdle
    /\ NormalizerIdle
    /\ IsAggregatedResults(aggregated_results)
    /\ knowledge_graph = <<>>
    /\ kg_status = "input"

GenerateKnowledgeGraph ==
    /\ kg_status = "input"
    /\ \E uuids \in [1..uuid_calls(aggregated_results) -> UuidPool] :
          knowledge_graph' = generate_knowledge_graph(aggregated_results, uuids)
    /\ kg_status' = "generated"
    /\ UNCHANGED aggregated_results
    /\ UNCHANGED outside_storage

NextStorage == GenerateKnowledgeGraph

SpecStorage == InitStorage /\ [][NextStorage]_vars

(***************************************************************************)
(* Claims about the knowledge graph                                        *)
(***************************************************************************)
\* the names of the entities that became nodes
RegisteredNames ==
    LET names(entities) ==
            {Get(entities[i], "concept_name", "") : i \in 1..Len(entities)} \ {""}
    IN  names(section_list(aggregated_results, "diagnostic", "condition_entities"))
        \cup names(section_list(aggregated_results, "drug", "drug_entities"))

NodeIds == {knowledge_graph.nodes[i].id : i \in 1..Len(knowledge_graph.nodes)}

\* the relationships of the input with all three fields filled in
CompleteRelationships ==
    LET rels(list, source_key) ==
            {[at |-> <<source_key, i>>,
              source |-> Get(list[i], source_key, ""),
              target |-> Get(list[i], "target_entity", "")] :
                i \in {j \in 1..Len(list) :
                          /\ Get(list[j], source_key, "") # ""
                          /\ Get(list[j], "target_entity", "") # ""
                          /\ Get(list[j], "relationship_type", "") # ""}}
    IN  rels(section_list(aggregated_results, "diagnostic", "condition_relationships"),
             "source_condition")
        \cup rels(section_list(aggregated_results, "drug", "drug_relationships"),
                  "source_drug")

RelationshipEdges ==
    {i \in 1..Len(knowledge_graph.edges) : knowledge_graph.edges[i].type # "HAS_DOSING"}

\* C21: generate_knowledge_graph emits the edge of a relationship only when
\* both its source and its target name were registered as nodes, a
\* relationship with an unregistered endpoint is dropped, and the source and
\* the target of every edge are ids of nodes in the returned list.
C21_EdgesJoinRegisteredNodes ==
    kg_status = "generated" =>
        /\ \A i \in 1..Len(knowledge_graph.edges) :
              /\ knowledge_graph.edges[i].source \in NodeIds
              /\ knowledge_graph.edges[i].target \in NodeIds
        /\ Cardinality(RelationshipEdges)
              = Cardinality({r \in CompleteRelationships :
                                r.source \in RegisteredNames
                                /\ r.target \in RegisteredNames})

\* a graph with the edge of one relationship, while another relationship,
\* complete but with an endpoint that is no node, left no edge
C21_Witness ==
    /\ kg_status = "generated"
    /\ Cardinality(RelationshipEdges) = 1
    /\ Cardinality(CompleteRelationships) = 2
    /\ \E r \in CompleteRelationships :
          r.source \notin RegisteredNames \/ r.target \notin RegisteredNames

(***************************************************************************)
(* Part V : the cohort graph, from the first validate_cohort on            *)
(***************************************************************************)
\* longest cohort_result and longest state.cohorts
MaxCohortResults == 2

\* the retry_passes counter stops counting here
MaxRetryPasses == 5

RETRY_COUNT == 3

\* the entries extract_cohorts can leave in cohort_result
CohortResultEntries ==
    {[name |-> "k1", is_valid |-> TRUE],
     [name |-> "k1", is_valid |-> FALSE, retries |-> 0],
     [name |-> "k1", is_valid |-> FALSE, retries |-> 3],
     [name |-> "k1"]}

\* the cohort objects of state.cohorts: population stands for the fields
\* validate_cohort looks at, parent_cohort_id is an optional attribute
CohortObjects ==
    {[id |-> "k1", population |-> 10],
     [id |-> "k1", population |-> -1],
     [id |-> "k2", population |-> 10, parent_cohort_id |-> "k1"]}

\* route_after_validation of cohort_graph/utils.py
cohort_route_after_validation(results_in) ==
    LET invalid_cohorts_exist ==
            \E i \in 1..Len(results_in) : ~Get(results_in[i], "is_valid", FALSE)
        retry_needed ==
            \E i \in 1..Len(results_in) :
                /\ ~Get(results_in[i], "is_valid", FALSE)
                /\ Get(results_in[i], "retries", 0) < RETRY_COUNT
    IN  IF invalid_cohorts_exist /\ retry_needed
        THEN "retry_extract_cohort"
        ELSE "return_final_cohorts"

\* the path map given to add_conditional_edges for validate_cohort
cohort_validation_edges ==
    [retry_extract_cohort |-> "retry_extract_cohort",
     return_final_cohorts |-> "return_final_cohorts"]

\* the result validate_cohort builds for one cohort
validation_result(c, all_cohorts) ==
    [cohort_id |-> c.id,
     is_valid |->
        /\ c.population >= 0
        /\ "parent_cohort_id" \in DOMAIN c
              => \E i \in 1..Len(all_cohorts) : all_cohorts[i].id = c.parent_cohort_id,
     can_retry |-> TRUE]

\* the results retry_extract_cohort works on
invalid_cohorts(results_in) ==
    {i \in 1..Len(results_in) :
        ~results_in[i].is_valid /\ results_in[i].can_retry}

InitCohortGraph ==
    /\ LoggerIdle
    /\ DocumentWorkflowIdle
    /\ AnalysisIdle
    /\ AgentsIdle
    /\ NormalizerIdle
    /\ StorageIdle
    /\ cg_node = "validate_cohort"
    /\ cg_state_kind \in {"dict", "object"}
    /\ cohort_result \in SeqsUpTo(CohortResultEntries, MaxCohortResults)
    /\ cohorts \in SeqsUpTo(CohortObjects, MaxCohortResults)
    /\ cg_validation_results = <<>>
    /\ can_retry = FALSE
    /\ retry_passes = 0

\* validate_cohort on a state that has the attributes it reads
ValidateCohort ==
    /\ cg_node = "validate_cohort"
    /\ cg_state_kind = "object"
    /\ cg_validation_results' =
          [i \in 1..Len(cohorts) |-> validation_result(cohorts[i], cohorts)]
    /\ can_retry' =
          \E i \in 1..Len(cohorts) :
              /\ ~cg_validation_results'[i].is_valid
              /\ cg_validation_results'[i].can_retry
    /\ cg_node' = "route_after_validation"
    /\ UNCHANGED <<cg_state_kind, cohort_result, cohorts, retry_passes>>
    /\ UNCHANGED outside_cohort_graph

\* validate_cohort on the dict the graph builds for a TypedDict state:
\* state.cohorts is an AttributeError
ValidateCohortRaises ==
    /\ cg_node = "validate_cohort"
    /\ cg_state_kind = "dict"
    /\ cg_node' = "raised"
    /\ UNCHANGED <<cg_state_kind, cohort_result, cohorts, cg_validation_results,
                   can_retry, retry_passes>>
    /\ UNCHANGED outside_cohort_graph

\* the conditional edge after validate_cohort
CohortRouteAfterValidation ==
    /\ cg_node = "route_after_validation"
    /\ cg_node' = cohort_validation_edges[cohort_route_after_validation(cohort_result)]
    /\ UNCHANGED <<cg_state_kind, cohort_result, cohorts, cg_validation_results,
                   can_retry, retry_passes>>
    /\ UNCHANGED outside_cohort_graph

\* retry_extract_cohort: every invalid cohort whose LLM call returns is
\* taken out of state.cohorts, every one whose call raises is marked
\* can_retry = False; then back to validate_cohort
RetryExtractCohort ==
    /\ cg_node = "retry_extract_cohort"
    /\ \E generated \in SUBSET invalid_cohorts(cg_validation_results) :
          LET retried == {cg_validation_results[i].cohort_id : i \in generated}
              keep(c) == c.id \notin retried
          IN  /\ cohorts' = SelectSeq(cohorts, keep)
              /\ cg_validation_results' =
                    [i \in 1..Len(cg_validation_results) |->
                        IF i \in invalid_cohorts(cg_validation_results) \ generated
                        THEN [cg_validation_results[i] EXCEPT !.can_retry = FALSE]
                        ELSE cg_validation_results[i]]
    /\ retry_passes' = IF retry_passes < MaxRetryPasses
                       THEN retry_passes + 1 ELSE retry_passes
    /\ cg_node' = "validate_cohort"
    /\ UNCHANGED <<cg_state_kind, cohort_result, can_retry>>
    /\ UNCHANGED outside_cohort_graph

\* return_final_cohorts, then END: only the valid cohorts are returned
ReturnFinalCohorts ==
    /\ cg_node = "return_final_cohorts"
    /\ LET keep(c) == Get(c, "is_valid", FALSE)
       IN  cohort_result' = SelectSeq(cohort_result, keep)
    /\ cg_node' = END
    /\ UNCHANGED <<cg_state_kind, cohorts, cg_validation_results, can_retry,
                   retry_passes>>
    /\ UNCHANGED outside_cohort_graph

NextCohortGraph ==
    \/ ValidateCohort
    \/ ValidateCohortRaises
    \/ CohortRouteAfterValidation
    \/ RetryExtractCohort
    \/ ReturnFinalCohorts

SpecCohortGraph == InitCohortGraph /\ [][NextCohortGraph]_vars

(***************************************************************************)
(* Claims about the cohort graph                                           *)
(***************************************************************************)
\* C22: the loop validate_cohort -> retry_extract_cohort is bounded: the
\* retry node runs at most RETRY_COUNT times in a run, after which the
\* routing goes to return_final_cohorts.
C22_RetryLoopBounded ==
    retry_passes <= RETRY_COUNT

(***************************************************************************)
(* Part VI : process_source and the nodes of create_workflow               *)
(***************************************************************************)
\* what input_source can lead to: no file, a file that is not JSON, a
\* guideline without text, a guideline with text
InputSources == {"missing", "not_json", "no_text", "guideline"}

\* what llm.chat can do in determine_analysis_type: raise, or answer with
\* one of the three types, another type, text that is not JSON, or JSON
\* that is not an object
TypeAnswers == {"raise", "diagnostic", "drug", "both", "other", "no_json", "not_object"}

\* what llm.chat can do in an extraction node: raise, answer with text that
\* does not parse or does not fit the model, answer with results
ExtractAnswers == {"raise", "unparsable", "empty", "found"}

\* what writing the result file can do
SaveOutcomes == {"written", "raise"}

\* the analysis type read from a parsed answer
analysis_type_of(answer) ==
    IF answer \in {"diagnostic", "drug", "both"} THEN answer ELSE "both"

\* "success" as process_source always reporting it
success_of_always(final_error_message) == TRUE

\* "success" of the dictionary process_source returns
success_of(final_error_message) == final_error_message = None

\* state.error_message = ... in the node named
Record(in_node, message) ==
    /\ error_message' = message
    /\ recorded' = Append(recorded, in_node)

\* process_source: GraphState(input_source = source_path), then invoke
InitDocumentWorkflow ==
    /\ LoggerIdle
    /\ AnalysisIdle
    /\ AgentsIdle
    /\ NormalizerIdle
    /\ StorageIdle
    /\ CohortGraphIdle
    /\ doc_node = "load_document"
    /\ input_source \in InputSources
    /\ document_chunks = None
    /\ analysis_type = None
    /\ diagnostic_results = None
    /\ drug_results = None
    /\ doc_aggregated_results = None
    /\ total_results = None
    /\ error_message = None
    /\ current_step = None
    /\ process_source_result = <<>>
    /\ recorded = <<>>

load_document ==
    /\ doc_node = "load_document"
    /\ IF input_source \in {"missing", "not_json"}
       THEN /\ Record("load_document", "load_document:" \o input_source)
            /\ UNCHANGED <<document_chunks, current_step>>
       ELSE /\ document_chunks' = IF input_source = "no_text" THEN "none" ELSE "some"
            /\ current_step' = "load_document"
            /\ UNCHANGED <<error_message, recorded>>
    /\ doc_node' = "determine_analysis_type"
    /\ UNCHANGED <<input_source, analysis_type, diagnostic_results, drug_results,
                   doc_aggregated_results, total_results, process_source_result>>
    /\ UNCHANGED outside_document_workflow

determine_analysis_type ==
    /\ doc_node = "determine_analysis_type"
    /\ IF document_chunks # "some"
       THEN /\ Record("determine_analysis_type", "determine_analysis_type:no_document")
            /\ UNCHANGED <<analysis_type, current_step>>
       ELSE \E answer \in TypeAnswers :
               CASE answer \in {"raise", "not_object"} ->
                       /\ Record("determine_analysis_type",
                                 "determine_analysis_type:" \o answer)
                       /\ UNCHANGED <<analysis_type, current_step>>
                 [] OTHER ->
                       /\ analysis_type' = analysis_type_of(answer)
                       /\ current_step' = "determine_analysis_type"
                       /\ UNCHANGED <<error_message, recorded>>
    /\ doc_node' = "extract_diagnostic_info"
    /\ UNCHANGED <<input_source, document_chunks, diagnostic_results, drug_results,
                   doc_aggregated_results, total_results, process_source_result>>
    /\ UNCHANGED outside_document_workflow

extract_diagnostic_info ==
    /\ doc_node = "extract_diagnostic_info"
    /\ IF analysis_type \notin {"diagnostic", "both"}
       THEN UNCHANGED <<diagnostic_results, error_message, recorded, current_step>>
       ELSE \E answer \in ExtractAnswers :
               CASE answer = "raise" ->
                       /\ Record("extract_diagnostic_info", "extract_diagnostic_info:raise")
                       /\ UNCHANGED <<diagnostic_results, current_step>>
                 [] answer = "unparsable" ->
                       /\ Record("extract_diagnostic_info",
                                 "extract_diagnostic_info:unparsable")
                       /\ current_step' = "extract_diagnostic_info"
                       /\ UNCHANGED diagnostic_results
                 [] OTHER ->
                       /\ diagnostic_results' = answer
                       /\ current_step' = "extract_diagnostic_info"
                       /\ UNCHANGED <<error_message, recorded>>
    /\ doc_node' = "extract_drug_info"
    /\ UNCHANGED <<input_source, document_chunks, analysis_type, drug_results,
                   doc_aggregated_results, total_results, process_source_result>>
    /\ UNCHANGED outside_document_workflow

extract_drug_info ==
    /\ doc_node = "extract_drug_info"
    /\ IF analysis_type \notin {"drug", "both"}
       THEN UNCHANGED <<drug_results, error_message, recorded, current_step>>
       ELSE \E answer \in ExtractAnswers :
               CASE answer = "raise" ->
                       /\ Record("extract_drug_info", "extract_drug_info:raise")
                       /\ UNCHANGED <<drug_results, current_step>>
                 [] answer = "unparsable" ->
                       /\ Record("extract_drug_info", "extract_drug_info:unparsable")
                       /\ current_step' = "extract_drug_info"
                       /\ UNCHANGED drug_results
                 [] OTHER ->
                       /\ drug_results' = answer
                       /\ current_step' = "extract_drug_info"
                       /\ UNCHANGED <<error_message, recorded>>
    /\ doc_node' = "aggregate_results"
    /\ UNCHANGED <<input_source, document_chunks, analysis_type, diagnostic_results,
                   doc_aggregated_results, total_results, process_source_result>>
    /\ UNCHANGED outside_document_workflow

aggregate_results ==
    /\ doc_node = "aggregate_results"
    /\ IF diagnostic_results = None /\ drug_results = None
       THEN /\ Record("aggregate_results", "aggregate_results:nothing")
            /\ UNCHANGED <<doc_aggregated_results, current_step>>
       ELSE /\ doc_aggregated_results' =
                  "diagnostic:" \o diagnostic_results \o ",drug:" \o drug_results
            /\ current_step' = "aggregate_results"
            /\ UNCHANGED <<error_message, recorded>>
    /\ doc_node' = "save_results"
    /\ UNCHANGED <<input_source, document_chunks, analysis_type, diagnostic_results,
                   drug_results, total_results, process_source_result>>
    /\ UNCHANGED outside_document_workflow

save_results ==
    /\ doc_node = "save_results"
    /\ IF doc_aggregated_results = None
       THEN /\ Record("save_results", "save_results:nothing")
            /\ UNCHANGED <<total_results, current_step>>
       ELSE \E outcome \in SaveOutcomes :
               IF outcome = "raise"
               THEN /\ Record("save_results", "save_results:raise")
                    /\ UNCHANGED <<total_results, current_step>>
               ELSE /\ total_results' =
                          IF error_message # None THEN "results+error" ELSE "results"
                    /\ current_step' = "save_results"
                    /\ UNCHANGED <<error_message, recorded>>
    /\ doc_node' = END
    /\ UNCHANGED <<input_source, document_chunks, analysis_type, diagnostic_results,
                   drug_results, doc_aggregated_results, process_source_result>>
    /\ UNCHANGED outside_document_workflow

\* workflow.invoke returned: process_source builds its answer
ProcessSourceReturns ==
    /\ doc_node = END
    /\ process_source_result' =
          <<[success |-> success_of(error_message),
             error |-> error_message,
             results |-> total_results]>>
    /\ doc_node' = "returned"
    /\ UNCHANGED <<input_source, document_chunks, analysis_type, diagnostic_results,
                   drug_results, doc_aggregated_results, total_results,
                   error_message, current_step, recorded>>
    /\ UNCHANGED outside_document_workflow

NextDocumentWorkflow ==
    \/ load_document
    \/ determine_analysis_type
    \/ extract_diagnostic_info
    \/ extract_drug_info
    \/ aggregate_results
    \/ save_results
    \/ ProcessSourceReturns

SpecDocumentWorkflow == InitDocumentWorkflow /\ [][NextDocumentWorkflow]_vars

(***************************************************************************)
(* Claims about the document workflow                                      *)
(***************************************************************************)
\* C29: once a node has recorded an error message no later node clears it,
\* and process_source reports success = true only if no node of the run
\* recorded an error.
C29_ErrorSticksAndDecidesSuccess ==
    /\ [][error_message # None => error_message' # None]_vars
    /\ [](recorded # <<>> => error_message # None)
    /\ [](process_source_result # <<>> =>
             /\ process_source_result[1].success => recorded = <<>>
             /\ process_source_result[1].success
                   <=> process_source_result[1].error = None)

\* the first node recorded an error, the later nodes ran, and process_source
\* reported a failure
C29_Witness ==
    /\ process_source_result # <<>>
    /\ ~process_source_result[1].success
    /\ Len(recorded) >= 2
    /\ recorded[1] = "load_document"

(***************************************************************************)
(* Part VII : get_logger and Logger.close                                  *)
(***************************************************************************)
\* the logger names of test_logger
LoggerNames == {"main", "doc", "custom"}

\* the handlers Logger.__init__ adds with console_output and file_output
\* left at their default
default_handlers == {"console", "file"}

\* Logger.__init__ on logging.getLogger(name): the handlers afterwards
handlers_after_init(name) ==
    IF name \notin configured_loggers
    THEN [handlers EXCEPT ![name] = default_handlers]
    ELSE handlers

\* the module has been imported
InitLogger ==
    /\ AnalysisIdle
    /\ AgentsIdle
    /\ NormalizerIdle
    /\ StorageIdle
    /\ CohortGraphIdle
    /\ DocumentWorkflowIdle
    /\ configured_loggers = {}
    /\ logger_cache = {}
    /\ handlers = [n \in LoggerNames |-> {}]
    /\ returned_logger = None
    /\ last_call = "none"

\* get_logger(name, force_new = force_new)
GetLogger(name, force_new) ==
    /\ last_call # "off"
    /\ IF name \notin logger_cache \/ force_new
       THEN /\ handlers' = handlers_after_init(name)
            /\ configured_loggers' = configured_loggers \cup {name}
            /\ logger_cache' = logger_cache \cup {name}
       ELSE UNCHANGED <<handlers, configured_loggers, logger_cache>>
    /\ returned_logger' = name
    /\ last_call' = "get_logger"
    /\ UNCHANGED outside_logger

\* close() of a logger that get_logger handed out
Close(name) ==
    /\ last_call # "off"
    /\ name \in logger_cache
    /\ IF name \in configured_loggers
       THEN /\ handlers' = [handlers EXCEPT ![name] = {}]
            /\ configured_loggers' = configured_loggers \ {name}
       ELSE UNCHANGED <<handlers, configured_loggers>>
    /\ last_call' = "close"
    /\ UNCHANGED <<logger_cache, returned_logger>>
    /\ UNCHANGED outside_logger

\* the module's remove_logger(name)
RemoveLogger(name) ==
    /\ last_call # "off"
    /\ IF name \in configured_loggers
       THEN /\ handlers' = [handlers EXCEPT ![name] = {}]
            /\ configured_loggers' = configured_loggers \ {name}
       ELSE UNCHANGED <<handlers, configured_loggers>>
    /\ logger_cache' = logger_cache \ {name}
    /\ last_call' = "remove_logger"
    /\ UNCHANGED returned_logger
    /\ UNCHANGED outside_logger

NextLogger ==
    \/ \E name \in LoggerNames, force_new \in BOOLEAN : GetLogger(name, force_new)
    \/ \E name \in LoggerNames : Close(name)
    \/ \E name \in LoggerNames : RemoveLogger(name)

SpecLogger == InitLogger /\ [][NextLogger]_vars

(***************************************************************************)
(* Claims about the logger registry                                        *)
(***************************************************************************)
\* C30: after any sequence of get_logger(name) and Logger.close() calls the
\* logger that get_logger(name) returns is configured: its name is in the
\* set of configured loggers and it has handlers.
C30_ReturnedLoggerIsConfigured ==
    last_call = "get_logger" =>
        /\ returned_logger \in configured_loggers
        /\ handlers[returned_logger] # {}

====
